---- MODULE Spec2Model ----
(***************************************************************************)
(* A model of peejay's streaming JSON parser (include/peejay/json.hpp):    *)
(* the byte feeder parser::input, the delivery loop                        *)
(* parser::consume_code_point, parser::eof and the matchers that sit on    *)
(* the parse stack.  The sink ("backend") is modelled by the sequence of   *)
(* callbacks it received and by the one callback at which it returns an    *)
(* error.                                                                   *)
(***************************************************************************)
EXTENDS Integers, Sequences, FiniteSets, TLC

VARIABLES
  utf_,          \* parser::utf_, the UTF-8 decoder in front of the matchers
  stack_,        \* parser::stack_, bottom first
  error_,        \* parser::error_
  string_,       \* parser::string_, the shared string buffer (UTF-8 bytes)
  pos_,          \* parser::pos_
  matcher_pos_,  \* parser::matcher_pos_
  extensions_,   \* parser::extensions_, the set of enabled extensions
  events,        \* the callbacks the backend received, in order
  failAt,        \* the backend returns an error from its failAt-th callback (0: never)
  aborted,       \* the delivery loop dereferenced the top of an empty stack
  assertFailed,  \* parser::set_error was given no error while one was stored
  sharedStorage, \* a matcher was constructed in storage a stack entry lives in
  seed,          \* the document prefix the caller is going to feed
  seedPos,       \* how many bytes of seed were passed to input()
  tail,          \* bytes passed to input() after the seed, while no error was stored
  alphabet,      \* the bytes the caller draws from after the seed
  eofCalls,      \* number of eof() calls made
  inputAfterEof, \* input() was called after an eof() call
  lateInput,     \* input() was called while an error was stored
  splits         \* what the chunk boundaries of the input() calls have cut through

vars == <<utf_, stack_, error_, string_, pos_, matcher_pos_, extensions_, events,
          failAt, aborted, assertFailed, sharedStorage, seed, seedPos, tail, alphabet, eofCalls, inputAfterEof,
          lateInput, splits>>

-----------------------------------------------------------------------------
(* Characters: enum char_set and the character literals of the matchers.   *)

asterisk == 42
backspace == 8
carriage_return == 13
character_tabulation == 9
digit_nine == 57
digit_zero == 48
form_feed == 12
latin_capital_letter_a == 65
latin_capital_letter_z == 90
latin_small_letter_a == 97
latin_small_letter_b == 98
latin_small_letter_f == 102
latin_small_letter_n == 110
latin_small_letter_r == 114
latin_small_letter_t == 116
latin_small_letter_u == 117
latin_small_letter_z == 122
line_feed == 10
number_sign == 35
quotation_mark == 34
reverse_solidus == 92
solidus == 47
space == 32
apostrophe == 39
plus_sign == 43
comma == 44
hyphen_minus == 45
full_stop == 46
colon == 58
left_square_bracket == 91
right_square_bracket == 93
left_curly_bracket == 123
right_curly_bracket == 125
latin_small_letter_e == 101
latin_capital_letter_e == 69
latin_capital_letter_f == 70
digit_one == 49
last_control_character == 31

\* std::nullopt, the end-of-input sentinel handed to consume()
EndOfInput == 0 - 1

\* the zero std::error_code
NoError == "none"
\* the error the model's backend returns when it fails
SinkError == "sink_error"

AllExtensions ==
  {"bash_comments", "single_line_comments", "multi_line_comments",
   "array_trailing_comma", "object_trailing_comma", "single_quote_string",
   "leading_plus"}

\* parser::extension_enabled
extension_enabled(p, flag) == flag \in p.extensions_

isspace(c) ==
  c = character_tabulation \/ c = line_feed \/ c = carriage_return \/ c = space

isalnum(c) ==
  \/ (c >= digit_zero /\ c <= digit_nine)
  \/ (c >= latin_capital_letter_a /\ c <= latin_capital_letter_z)
  \/ (c >= latin_small_letter_a /\ c <= latin_small_letter_z)

IsDigit(c) == c >= digit_zero /\ c <= digit_nine

-----------------------------------------------------------------------------
(* Machine integers.  A std::uint64_t is four 16-bit limbs, an unsigned is *)
(* two, least significant first; the carry out of the top limb is lost,   *)
(* as in the machine arithmetic.                                           *)

LimbBase == 256 * 256

U64Zero == <<0, 0, 0, 0>>
U32Zero == <<0, 0>>

\* a * 10U + d in 64 bits
U64MulAdd10(a, d) ==
  LET s1 == a[1] * 10 + d
      s2 == a[2] * 10 + (s1 \div LimbBase)
      s3 == a[3] * 10 + (s2 \div LimbBase)
      s4 == a[4] * 10 + (s3 \div LimbBase)
  IN  <<s1 % LimbBase, s2 % LimbBase, s3 % LimbBase, s4 % LimbBase>>

\* a * 10U + d in 32 bits
U32MulAdd10(a, d) ==
  LET s1 == a[1] * 10 + d
      s2 == a[2] * 10 + (s1 \div LimbBase)
  IN  <<s1 % LimbBase, s2 % LimbBase>>

\* a < b for two limb sequences of the same length
RECURSIVE LimbsLess(_, _, _)
LimbsLess(a, b, i) ==
  IF i = 0 THEN FALSE
  ELSE IF a[i] # b[i] THEN a[i] < b[i]
  ELSE LimbsLess(a, b, i - 1)

ULess(a, b) == LimbsLess(a, b, Len(a))

\* static_cast<std::uint64_t>(std::numeric_limits<std::int64_t>::min ()) = 2^63
umin == <<0, 0, 0, 32768>>

\* -static_cast<std::int64_t>(a), as the 64-bit two's complement pattern
I64Negate(a) ==
  LET n1 == (LimbBase - 1 - a[1]) + 1
      n2 == (LimbBase - 1 - a[2]) + (n1 \div LimbBase)
      n3 == (LimbBase - 1 - a[3]) + (n2 \div LimbBase)
      n4 == (LimbBase - 1 - a[4]) + (n3 \div LimbBase)
  IN  <<n1 % LimbBase, n2 % LimbBase, n3 % LimbBase, n4 % LimbBase>>

-----------------------------------------------------------------------------
(* The transcoders of icubaby.hpp, which is not among the sources; they    *)
(* follow the contract the specification gives them (section 6.4).         *)

replacement_char == 65533
first_high_surrogate == 55296
last_high_surrogate == 56319
first_low_surrogate == 56320
last_low_surrogate == 57343
max_code_point == 1114111

is_high_surrogate(c) == c >= first_high_surrogate /\ c <= last_high_surrogate
is_low_surrogate(c) == c >= first_low_surrogate /\ c <= last_low_surrogate
is_surrogate(c) == c >= first_high_surrogate /\ c <= last_low_surrogate

IsContinuation(b) == b >= 128 /\ b <= 191

\* No code point: the decoder is in the middle of a sequence.
NoCodePoint == 0 - 2

\* icubaby::t8_32 in its initial state
Utf8Initial == [need |-> 0, cp |-> 0, lo |-> 128, well_formed |-> TRUE]

\* icubaby::t8_32::operator(): one byte in, at most one code point out.  A
\* malformed sequence yields U+FFFD and clears well_formed.
t8_32(u, b) ==
  LET bad == [utf |-> [need |-> 0, cp |-> 0, lo |-> 128, well_formed |-> FALSE],
              out |-> replacement_char]
  IN
  IF u.need = 0 THEN
    IF b < 128 THEN [utf |-> u, out |-> b]
    ELSE IF b >= 194 /\ b <= 223 THEN
      [utf |-> [u EXCEPT !.need = 1, !.cp = b % 32, !.lo = 128], out |-> NoCodePoint]
    ELSE IF b >= 224 /\ b <= 239 THEN
      [utf |-> [u EXCEPT !.need = 2, !.cp = b % 16,
                         !.lo = IF b = 224 THEN 160 ELSE 128],
       out |-> NoCodePoint]
    ELSE IF b >= 240 /\ b <= 244 THEN
      [utf |-> [u EXCEPT !.need = 3, !.cp = b % 8,
                         !.lo = IF b = 240 THEN 144 ELSE 128],
       out |-> NoCodePoint]
    ELSE bad
  ELSE
    IF IsContinuation(b) /\ b >= u.lo THEN
      LET c == u.cp * 64 + (b % 64) IN
      IF u.need = 1 THEN
        IF is_surrogate(c) \/ c > max_code_point THEN bad
        ELSE [utf |-> [u EXCEPT !.need = 0, !.cp = 0, !.lo = 128], out |-> c]
      ELSE [utf |-> [u EXCEPT !.need = u.need - 1, !.cp = c, !.lo = 128],
            out |-> NoCodePoint]
    ELSE bad

\* The UTF-8 encoding of a code point
Utf8Encode(c) ==
  IF c < 128 THEN <<c>>
  ELSE IF c < 2048 THEN <<192 + (c \div 64), 128 + (c % 64)>>
  ELSE IF c < 65536 THEN
    <<224 + (c \div 4096), 128 + ((c \div 64) % 64), 128 + (c % 64)>>
  ELSE <<240 + (c \div 262144), 128 + ((c \div 4096) % 64),
         128 + ((c \div 64) % 64), 128 + (c % 64)>>

\* icubaby::t32_8: the bytes appended for a code point and whether the
\* transcoder is still well formed afterwards.
t32_8(c) ==
  IF is_surrogate(c) \/ c > max_code_point
  THEN [bytes |-> Utf8Encode(replacement_char), well_formed |-> FALSE]
  ELSE [bytes |-> Utf8Encode(c), well_formed |-> TRUE]

\* icubaby::t16_8 in its initial state: no high surrogate is pending
Utf16Initial == [high |-> 0, well_formed |-> TRUE]

\* icubaby::t16_8::partial
partial(t) == t.high # 0

\* icubaby::t16_8::operator(): one UTF-16 code unit in, bytes out; a high
\* surrogate waits for the low surrogate of its pair.
t16_8(t, cu) ==
  IF t.high # 0 THEN
    IF is_low_surrogate(cu) THEN
      [utf |-> [t EXCEPT !.high = 0],
       bytes |-> Utf8Encode(65536 + (t.high - first_high_surrogate) * 1024
                              + (cu - first_low_surrogate))]
    ELSE
      [utf |-> [high |-> IF is_high_surrogate(cu) THEN cu ELSE 0, well_formed |-> FALSE],
       bytes |-> Utf8Encode(replacement_char)]
  ELSE IF is_high_surrogate(cu) THEN [utf |-> [t EXCEPT !.high = cu], bytes |-> <<>>]
  ELSE IF is_low_surrogate(cu) THEN
    [utf |-> [t EXCEPT !.well_formed = FALSE], bytes |-> Utf8Encode(replacement_char)]
  ELSE [utf |-> t, bytes |-> Utf8Encode(cu)]

\* icubaby::t16_8::end_cp: an open high surrogate is malformed
t16_8_end_cp(t) ==
  IF t.high # 0
  THEN [utf |-> [high |-> 0, well_formed |-> FALSE], bytes |-> Utf8Encode(replacement_char)]
  ELSE [utf |-> t, bytes |-> <<>>]

-----------------------------------------------------------------------------
(* The backend.  Every callback is recorded; the failAt-th one returns an  *)
(* error.                                                                   *)

\* p.backend ().<cb> (arg): the parser after the call, and what the call returned
Notify(p, cb, arg) ==
  [p   |-> [p EXCEPT !.events = Append(@, [cb |-> cb, arg |-> arg])],
   err |-> IF Len(p.events) + 1 = p.failAt THEN SinkError ELSE NoError]

-----------------------------------------------------------------------------
(* Matchers.  A matcher is a record; consume takes the parser p, the       *)
(* matcher m on top of the stack and the code point ch, and returns the    *)
(* parser, the matcher, the child to push (or NoChild) and whether the     *)
(* code point was consumed.                                                *)

NoChild == [kind |-> "null_pointer"]

Res(p, m, child, consumed) == [p |-> p, m |-> m, child |-> child, consumed |-> consumed]

\* matcher::set_error (and parser::set_error): stores err; a matcher that
\* stored an error is done.  assert (!error_ || err) is recorded when it
\* fails.
set_error(p, m, err) ==
  [p |-> [p EXCEPT !.error_ = err,
                   !.assertFailed = @ \/ (p.error_ # NoError /\ err = NoError)],
   m |-> IF err # NoError THEN [m EXCEPT !.state = "done"] ELSE m]

set_state(m, s) == [m EXCEPT !.state = s]

\* parser::advance_row
advance_row(p) == [p EXCEPT !.pos_ = [line |-> @.line + 1, column |-> 0]]
\* parser::reset_column
reset_column(p) == [p EXCEPT !.pos_.column = 0]
\* parser::advance_column
advance_column(p) == [p EXCEPT !.pos_.column = @ + 1]

\* Constructors
eof_matcher == [kind |-> "eof", state |-> "start"]
whitespace_matcher == [kind |-> "whitespace", state |-> "body"]
root_matcher(is_object_key) ==
  [kind |-> "root", state |-> "start", object_key_ |-> is_object_key]
array_matcher == [kind |-> "array", state |-> "start"]
object_matcher == [kind |-> "object", state |-> "start"]
token_matcher(kind, text) == [kind |-> kind, state |-> "start", text_ |-> text]
true_token_matcher ==
  token_matcher("true", <<latin_small_letter_t, latin_small_letter_r,
                          latin_small_letter_u, latin_small_letter_e>>)
false_token_matcher ==
  token_matcher("false", <<latin_small_letter_f, latin_small_letter_a, 108, 115,
                           latin_small_letter_e>>)
null_token_matcher ==
  token_matcher("null", <<latin_small_letter_n, latin_small_letter_u, 108, 108>>)
number_matcher ==
  [kind |-> "number", state |-> "leading_minus", is_neg_ |-> FALSE,
   is_integer_ |-> TRUE, int_acc_ |-> U64Zero,
   fp_acc_ |-> [frac_digits |-> <<>>, whole_part |-> U64Zero,
                exp_is_negative |-> FALSE, exponent |-> U32Zero]]
string_matcher(object_key, enclosing_char) ==
  [kind |-> "string", state |-> "start", is_object_key_ |-> object_key,
   enclosing_char_ |-> enclosing_char, hex_ |-> 0, utf_16_to_8_ |-> Utf16Initial]


-----------------------------------------------------------------------------
(* token_matcher: true, false, null                                        *)

\* true_complete, false_complete, null_complete
done_(p, m) ==
  IF m.kind = "true" THEN Notify(p, "boolean_value", TRUE)
  ELSE IF m.kind = "false" THEN Notify(p, "boolean_value", FALSE)
  ELSE Notify(p, "null_value", <<>>)

\* token_matcher::consume going on to done_ after it stored unrecognized_token
token_matcher_consume_falling_through(p, m, ch) ==
  IF m.state = "start" THEN
    IF ch = EndOfInput \/ ch # Head(m.text_) THEN
      LET e == set_error(p, m, "unrecognized_token") IN Res(e.p, e.m, NoChild, TRUE)
    ELSE
      LET m1 == [m EXCEPT !.text_ = Tail(@)] IN
      Res(p, IF m1.text_ = <<>> THEN set_state(m1, "last") ELSE m1, NoChild, TRUE)
  ELSE
    LET stored == IF ch # EndOfInput /\ isalnum(ch)
                  THEN set_error(p, m, "unrecognized_token")
                  ELSE [p |-> p, m |-> m]
        n == done_(stored.p, m)
        e == set_error(n.p, m, n.err)
    IN  Res(e.p, set_state(e.m, "done"), NoChild, ch = EndOfInput \/ isalnum(ch))

\* token_matcher::consume taking the code point after the keyword for itself
token_matcher_consume_taking_lookahead(p, m, ch) ==
  IF m.state = "start" THEN
    IF ch = EndOfInput \/ ch # Head(m.text_) THEN
      LET e == set_error(p, m, "unrecognized_token") IN Res(e.p, e.m, NoChild, TRUE)
    ELSE
      LET m1 == [m EXCEPT !.text_ = Tail(@)] IN
      Res(p, IF m1.text_ = <<>> THEN set_state(m1, "last") ELSE m1, NoChild, TRUE)
  ELSE
    IF ch # EndOfInput /\ isalnum(ch) THEN
      LET e == set_error(p, m, "unrecognized_token") IN Res(e.p, e.m, NoChild, TRUE)
    ELSE
      LET n == done_(p, m)
          e == set_error(n.p, m, n.err)
      IN  Res(e.p, set_state(e.m, "done"), NoChild, TRUE)

token_matcher_consume(p, m, ch) ==
  IF m.state = "start" THEN
    IF ch = EndOfInput \/ ch # Head(m.text_) THEN
      LET e == set_error(p, m, "unrecognized_token") IN Res(e.p, e.m, NoChild, TRUE)
    ELSE
      LET m1 == [m EXCEPT !.text_ = Tail(@)] IN
      Res(p, IF m1.text_ = <<>> THEN set_state(m1, "last") ELSE m1, NoChild, TRUE)
  ELSE \* last_state
    IF ch # EndOfInput /\ isalnum(ch) THEN
      LET e == set_error(p, m, "unrecognized_token") IN Res(e.p, e.m, NoChild, TRUE)
    ELSE
      LET n == done_(p, m)
          e == set_error(n.p, m, n.err)
      IN  Res(e.p, set_state(e.m, "done"), NoChild, ch = EndOfInput)

-----------------------------------------------------------------------------
(* number_matcher                                                          *)

\* number_matcher::number_is_float leaving is_integer_ set
number_is_float_still_integer(m) ==
  IF m.is_integer_ THEN [m EXCEPT !.fp_acc_.whole_part = m.int_acc_] ELSE m

number_is_float(m) ==
  IF m.is_integer_
  THEN [m EXCEPT !.fp_acc_.whole_part = m.int_acc_, !.is_integer_ = FALSE]
  ELSE m

\* number_matcher::in_terminal_state without frac_state
in_terminal_state_without_frac(m) ==
  m.state \in {"integer_digit", "frac_digit", "exponent_digit", "done"}

in_terminal_state(m) ==
  m.state \in {"integer_digit", "frac", "frac_digit", "exponent_digit", "done"}

\* pow (10, exponent) is infinite from 10^309 on
max_finite_exponent == 308

\* the decimal digits of a 64-bit value, most significant first (no digit for 0)
RECURSIVE U64Digits(_)
U64Digits(a) ==
  IF a = U64Zero THEN <<>>
  ELSE
    LET r4 == a[4] % 10
        t3 == r4 * LimbBase + a[3]
        t2 == (t3 % 10) * LimbBase + a[2]
        t1 == (t2 % 10) * LimbBase + a[1]
    IN  Append(U64Digits(<<t1 \div 10, t2 \div 10, t3 \div 10, a[4] \div 10>>), t1 % 10)

\* the first digits of DBL_MAX = 1.7976931348623157e308
DblMaxDigits == <<1, 7, 9, 7, 6, 9, 3, 1, 3, 4, 8, 6, 2, 3, 1, 5, 7>>

\* digit string a >= digit string b, both read as 0.d1d2d3...
RECURSIVE DigitsGeq(_, _)
DigitsGeq(a, b) ==
  IF b = <<>> THEN TRUE
  ELSE IF a = <<>> THEN \A i \in 1..Len(b) : b[i] = 0
  ELSE IF Head(a) # Head(b) THEN Head(a) > Head(b)
  ELSE DigitsGeq(Tail(a), Tail(b))

\* std::isinf (xf) || std::isnan (xf) for
\* xf = (whole_part + frac_part / frac_scale) * 10^(+-exponent), exponent <= 308:
\* the product exceeds the largest double.  (Rounding of the intermediate
\* results is not modelled.)
FloatOverflows(fp) ==
  LET whole == U64Digits(fp.whole_part)
      e == fp.exponent[1]
  IN  /\ ~fp.exp_is_negative
      /\ whole # <<>>
      /\ \/ Len(whole) - 1 + e > max_finite_exponent
         \/ /\ Len(whole) - 1 + e = max_finite_exponent
            /\ DigitsGeq(whole \o fp.frac_digits, Append(DblMaxDigits, 1))

\* number_matcher::make_result
make_result(p, m) ==
  IF p.error_ # NoError THEN [p |-> p, m |-> m]
  ELSE IF m.is_integer_ THEN
    IF m.is_neg_ THEN
      IF ULess(umin, m.int_acc_) THEN set_error(p, m, "number_out_of_range")
      ELSE
        LET n == Notify(p, "int64_value",
                        IF m.int_acc_ = umin THEN umin ELSE I64Negate(m.int_acc_))
        IN  set_error(n.p, m, n.err)
    ELSE
      LET n == Notify(p, "uint64_value", m.int_acc_) IN set_error(n.p, m, n.err)
  ELSE IF m.fp_acc_.exponent[2] # 0 \/ m.fp_acc_.exponent[1] > max_finite_exponent
    THEN set_error(p, m, "number_out_of_range")
  ELSE IF FloatOverflows(m.fp_acc_) THEN set_error(p, m, "number_out_of_range")
  ELSE
    LET n == Notify(p, "double_value", [is_neg |-> m.is_neg_, fp |-> m.fp_acc_])
    IN  set_error(n.p, m, n.err)

\* number_matcher::complete ending the number without reporting it
complete_unreported(p, m) == [p |-> p, m |-> set_state(m, "done")]

\* number_matcher::complete
complete(p, m) == make_result(p, set_state(m, "done"))

do_integer_initial_digit_state(p, m, c) ==
  IF c = digit_zero THEN Res(p, set_state(m, "frac"), NoChild, TRUE)
  ELSE IF c >= digit_one /\ c <= digit_nine THEN
    Res(p, [m EXCEPT !.int_acc_ = <<c - digit_zero, 0, 0, 0>>, !.state = "integer_digit"],
        NoChild, TRUE)
  ELSE LET e == set_error(p, m, "unrecognized_token") IN Res(e.p, e.m, NoChild, TRUE)

do_leading_minus_state(p, m, c) ==
  IF c = hyphen_minus THEN
    Res(p, [m EXCEPT !.state = "integer_initial_digit", !.is_neg_ = TRUE], NoChild, TRUE)
  ELSE IF c = plus_sign THEN
    Res(p, set_state(m, "integer_initial_digit"), NoChild, TRUE)
  ELSE IF IsDigit(c) THEN
    do_integer_initial_digit_state(p, set_state(m, "integer_initial_digit"), c)
  ELSE LET e == set_error(p, m, "number_out_of_range") IN Res(e.p, e.m, NoChild, TRUE)

IntegerDigitOverflow(new_acc, int_acc) == ULess(new_acc, int_acc)

do_integer_digit_state(p, m, c) ==
  IF c = full_stop THEN
    Res(p, number_is_float(set_state(m, "frac_initial_digit")), NoChild, TRUE)
  ELSE IF c = latin_small_letter_e \/ c = latin_capital_letter_e THEN
    Res(p, number_is_float(set_state(m, "exponent_sign")), NoChild, TRUE)
  ELSE IF IsDigit(c) THEN
    LET new_acc == U64MulAdd10(m.int_acc_, c - digit_zero) IN
    IF IntegerDigitOverflow(new_acc, m.int_acc_) THEN
      LET e == set_error(p, m, "number_out_of_range") IN Res(e.p, e.m, NoChild, TRUE)
    ELSE Res(p, [m EXCEPT !.int_acc_ = new_acc], NoChild, TRUE)
  ELSE LET r == complete(p, m) IN Res(r.p, r.m, NoChild, FALSE)

\* do_frac_state taking a digit after the leading 0 for the start of what
\* follows the number
do_frac_state_ending_at_digit(p, m, c) ==
  IF c = full_stop THEN Res(p, set_state(m, "frac_initial_digit"), NoChild, TRUE)
  ELSE IF c = latin_small_letter_e \/ c = latin_capital_letter_e THEN
    Res(p, set_state(m, "exponent_sign"), NoChild, TRUE)
  ELSE LET r == complete(p, m) IN Res(r.p, r.m, NoChild, FALSE)

do_frac_state(p, m, c) ==
  IF c = full_stop THEN Res(p, set_state(m, "frac_initial_digit"), NoChild, TRUE)
  ELSE IF c = latin_small_letter_e \/ c = latin_capital_letter_e THEN
    Res(p, set_state(m, "exponent_sign"), NoChild, TRUE)
  ELSE IF IsDigit(c) THEN
    LET e == set_error(p, m, "number_out_of_range") IN Res(e.p, e.m, NoChild, TRUE)
  ELSE LET r == complete(p, m) IN Res(r.p, r.m, NoChild, FALSE)

do_frac_digit_state(p, m, c) ==
  IF c = latin_small_letter_e \/ c = latin_capital_letter_e THEN
    LET m1 == number_is_float(m) IN
    IF m.state = "frac_initial_digit" THEN
      LET e == set_error(p, m1, "unrecognized_token") IN Res(e.p, e.m, NoChild, TRUE)
    ELSE Res(p, set_state(m1, "exponent_sign"), NoChild, TRUE)
  ELSE IF IsDigit(c) THEN
    LET m1 == number_is_float(m) IN
    Res(p, [m1 EXCEPT !.fp_acc_.frac_digits = Append(@, c - digit_zero),
                      !.state = "frac_digit"],
        NoChild, TRUE)
  ELSE IF m.state = "frac_initial_digit" THEN
    LET e == set_error(p, m, "unrecognized_token") IN Res(e.p, e.m, NoChild, TRUE)
  ELSE LET r == complete(p, m) IN Res(r.p, r.m, NoChild, FALSE)

do_exponent_digit_state(p, m, c) ==
  IF IsDigit(c) THEN
    Res(p, [m EXCEPT !.fp_acc_.exponent = U32MulAdd10(@, c - digit_zero),
                     !.state = "exponent_digit"],
        NoChild, TRUE)
  ELSE IF m.state = "exponent_initial_digit" THEN
    LET e == set_error(p, m, "unrecognized_token") IN Res(e.p, e.m, NoChild, TRUE)
  ELSE LET r == complete(p, m) IN Res(r.p, r.m, NoChild, FALSE)

do_exponent_sign_state(p, m, c) ==
  LET m1 == set_state(number_is_float(m), "exponent_initial_digit") IN
  IF c = plus_sign THEN Res(p, [m1 EXCEPT !.fp_acc_.exp_is_negative = FALSE], NoChild, TRUE)
  ELSE IF c = hyphen_minus THEN
    Res(p, [m1 EXCEPT !.fp_acc_.exp_is_negative = TRUE], NoChild, TRUE)
  ELSE do_exponent_digit_state(p, m1, c)

number_matcher_consume(p, m, ch) ==
  IF ch # EndOfInput THEN
    CASE m.state = "leading_minus" -> do_leading_minus_state(p, m, ch)
      [] m.state = "integer_initial_digit" -> do_integer_initial_digit_state(p, m, ch)
      [] m.state = "integer_digit" -> do_integer_digit_state(p, m, ch)
      [] m.state = "frac" -> do_frac_state(p, m, ch)
      [] m.state \in {"frac_initial_digit", "frac_digit"} -> do_frac_digit_state(p, m, ch)
      [] m.state = "exponent_sign" -> do_exponent_sign_state(p, m, ch)
      [] m.state \in {"exponent_initial_digit", "exponent_digit"} ->
           do_exponent_digit_state(p, m, ch)
  ELSE
    LET e == IF ~in_terminal_state(m) THEN set_error(p, m, "expected_digits")
             ELSE [p |-> p, m |-> m]
        r == complete(e.p, e.m)
    IN  Res(r.p, r.m, NoChild, TRUE)


-----------------------------------------------------------------------------
(* string_matcher                                                          *)

\* string_matcher::consume_normal and its wrapper normal
normal(p, m, code_point) ==
  IF code_point = m.enclosing_char_ THEN
    IF partial(m.utf_16_to_8_) THEN
      LET t == t16_8_end_cp(m.utf_16_to_8_)
          e == set_error([p EXCEPT !.string_ = @ \o t.bytes],
                         [m EXCEPT !.utf_16_to_8_ = t.utf], "bad_unicode_code_point")
      IN  Res(e.p, e.m, NoChild, TRUE)
    ELSE
      LET n == Notify(p, IF m.is_object_key_ THEN "key" ELSE "string_value", p.string_) IN
      IF n.err # NoError
      THEN LET e == set_error(n.p, m, n.err) IN Res(e.p, e.m, NoChild, TRUE)
      ELSE Res(n.p, set_state(m, "done"), NoChild, TRUE)
  ELSE IF code_point = reverse_solidus THEN Res(p, set_state(m, "escape"), NoChild, TRUE)
  ELSE IF code_point <= last_control_character THEN
    LET e == set_error(p, m, "bad_unicode_code_point") IN Res(e.p, e.m, NoChild, TRUE)
  ELSE
    LET t == t32_8(code_point)
        p1 == [p EXCEPT !.string_ = @ \o t.bytes]
    IN  IF ~t.well_formed
        THEN LET e == set_error(p1, m, "bad_unicode_code_point")
             IN  Res(e.p, e.m, NoChild, TRUE)
        ELSE Res(p1, set_state(m, "normal_char"), NoChild, TRUE)

NoHexValue == 0 - 1

\* string_matcher::hex_value
hex_value(c, value) ==
  IF c >= digit_zero /\ c <= digit_nine THEN 16 * value + (c - digit_zero)
  ELSE IF c >= latin_small_letter_a /\ c <= latin_small_letter_f
    THEN 16 * value + (c - latin_small_letter_a + 10)
  ELSE IF c >= latin_capital_letter_a /\ c <= latin_capital_letter_f
    THEN 16 * value + (c - latin_capital_letter_a + 10)
  ELSE NoHexValue

NextHexState(s) ==
  CASE s = "hex1" -> "hex2" [] s = "hex2" -> "hex3" [] s = "hex3" -> "hex4"

\* string_matcher::consume_hex and its wrapper hex
hex(p, m, code_point) ==
  LET opt_value == hex_value(code_point, m.hex_) IN
  IF opt_value = NoHexValue THEN
    LET e == set_error(p, m, "invalid_hex_char") IN Res(e.p, e.m, NoChild, TRUE)
  ELSE IF m.state # "hex4" THEN
    Res(p, [m EXCEPT !.hex_ = opt_value, !.state = NextHexState(m.state)], NoChild, TRUE)
  ELSE
    LET t == t16_8(m.utf_16_to_8_, opt_value % 65536)
        p1 == [p EXCEPT !.string_ = @ \o t.bytes]
        m1 == [m EXCEPT !.utf_16_to_8_ = t.utf]
    IN  IF ~t.utf.well_formed
        THEN LET e == set_error(p1, m1, "bad_unicode_code_point")
             IN  Res(e.p, e.m, NoChild, TRUE)
        ELSE Res(p1, [m1 EXCEPT !.hex_ = 0, !.state = "normal_char"], NoChild, TRUE)

\* The code point an escape character stands for, NoHexValue if it is none.
EscapedCodePoint(code_point) ==
  CASE code_point = quotation_mark -> code_point
    [] code_point = solidus -> code_point
    [] code_point = reverse_solidus -> code_point
    [] code_point = latin_small_letter_b -> backspace
    [] code_point = latin_small_letter_f -> form_feed
    [] code_point = latin_small_letter_n -> line_feed
    [] code_point = latin_small_letter_r -> carriage_return
    [] code_point = latin_small_letter_t -> character_tabulation
    [] OTHER -> NoHexValue

\* string_matcher::consume_escape_state and its wrapper escape
escape(p, m, code_point) ==
  IF code_point = latin_small_letter_u THEN Res(p, set_state(m, "hex1"), NoChild, TRUE)
  ELSE IF EscapedCodePoint(code_point) = NoHexValue THEN
    LET e == set_error(p, m, "invalid_escape_char") IN Res(e.p, e.m, NoChild, TRUE)
  ELSE
    Res([p EXCEPT !.string_ = @ \o t32_8(EscapedCodePoint(code_point)).bytes],
        set_state(m, "normal_char"), NoChild, TRUE)

string_matcher_consume(p, m, ch) ==
  IF ch = EndOfInput THEN
    LET e == set_error(p, m, "expected_close_quote") IN Res(e.p, e.m, NoChild, TRUE)
  ELSE
    CASE m.state = "start" ->
           IF ch = m.enclosing_char_ THEN Res(p, set_state(m, "normal_char"), NoChild, TRUE)
           ELSE LET e == set_error(p, m, "expected_token") IN Res(e.p, e.m, NoChild, TRUE)
      [] m.state = "normal_char" -> normal(p, m, ch)
      [] m.state = "escape" -> escape(p, m, ch)
      [] m.state \in {"hex1", "hex2", "hex3", "hex4"} -> hex(p, m, ch)

-----------------------------------------------------------------------------
(* whitespace_matcher                                                      *)

\* whitespace_matcher::cr
cr(p, m, next) == [p |-> advance_row(p), m |-> set_state(m, next)]

\* whitespace_matcher::consume_body handing the code point back without
\* being done
consume_body_not_done(p, m, c) ==
  LET stop_retry == Res(p, m, NoChild, FALSE) IN
  CASE c = space -> Res(p, m, NoChild, TRUE)
    [] c = character_tabulation -> Res(p, m, NoChild, TRUE)
    [] c = carriage_return -> LET r == cr(p, m, "crlf") IN Res(r.p, r.m, NoChild, TRUE)
    [] c = line_feed -> Res(advance_row(p), m, NoChild, TRUE)
    [] c = number_sign ->
         IF ~extension_enabled(p, "bash_comments") THEN stop_retry
         ELSE Res(p, set_state(m, "single_line_comment"), NoChild, TRUE)
    [] c = solidus ->
         IF /\ ~extension_enabled(p, "single_line_comments")
            /\ ~extension_enabled(p, "multi_line_comments")
         THEN stop_retry
         ELSE Res(p, set_state(m, "comment_start"), NoChild, TRUE)
    [] OTHER -> stop_retry

\* whitespace_matcher::consume_body
consume_body(p, m, c) ==
  LET stop_retry == Res(p, set_state(m, "done"), NoChild, FALSE) IN
  CASE c = space -> Res(p, m, NoChild, TRUE)
    [] c = character_tabulation -> Res(p, m, NoChild, TRUE)
    [] c = carriage_return -> LET r == cr(p, m, "crlf") IN Res(r.p, r.m, NoChild, TRUE)
    [] c = line_feed -> Res(advance_row(p), m, NoChild, TRUE)
    [] c = number_sign ->
         IF ~extension_enabled(p, "bash_comments") THEN stop_retry
         ELSE Res(p, set_state(m, "single_line_comment"), NoChild, TRUE)
    [] c = solidus ->
         IF /\ ~extension_enabled(p, "single_line_comments")
            /\ ~extension_enabled(p, "multi_line_comments")
         THEN stop_retry
         ELSE Res(p, set_state(m, "comment_start"), NoChild, TRUE)
    [] OTHER -> stop_retry

\* whitespace_matcher::consume_comment_start
consume_comment_start(p, m, c) ==
  IF c = solidus /\ extension_enabled(p, "single_line_comments") THEN
    Res(p, set_state(m, "single_line_comment"), NoChild, TRUE)
  ELSE IF c = asterisk /\ extension_enabled(p, "multi_line_comments") THEN
    Res(p, set_state(m, "multi_line_comment_body"), NoChild, TRUE)
  ELSE LET e == set_error(p, m, "expected_token") IN Res(e.p, e.m, NoChild, TRUE)

\* whitespace_matcher::multi_line_comment_body
multi_line_comment_body(p, m, c) ==
  CASE c = asterisk -> Res(p, set_state(m, "multi_line_comment_ending"), NoChild, TRUE)
    [] c = carriage_return ->
         LET r == cr(p, m, "multi_line_comment_crlf") IN Res(r.p, r.m, NoChild, TRUE)
    [] c = line_feed -> Res(advance_row(p), m, NoChild, TRUE)
    [] OTHER -> Res(p, m, NoChild, TRUE)

\* whitespace_matcher::consume leaving a comment open at the end of input
whitespace_matcher_consume_open_comment(p, m, ch) ==
  IF ch = EndOfInput THEN
    Res(p, IF m.state = "multi_line_comment_body" THEN m ELSE set_state(m, "done"),
        NoChild, TRUE)
  ELSE
    CASE m.state = "crlf" ->
           IF ch = line_feed THEN Res(reset_column(p), set_state(m, "body"), NoChild, TRUE)
           ELSE consume_body(p, set_state(m, "body"), ch)
      [] m.state = "body" -> consume_body(p, m, ch)
      [] m.state = "comment_start" -> consume_comment_start(p, m, ch)
      [] m.state = "multi_line_comment_ending" ->
           Res(p, set_state(m, IF ch = solidus THEN "body" ELSE "multi_line_comment_body"),
               NoChild, TRUE)
      [] m.state = "multi_line_comment_crlf" ->
           IF ch = line_feed
           THEN Res(reset_column(p), set_state(m, "multi_line_comment_body"), NoChild, TRUE)
           ELSE multi_line_comment_body(p, set_state(m, "multi_line_comment_body"), ch)
      [] m.state = "multi_line_comment_body" -> multi_line_comment_body(p, m, ch)
      [] m.state = "single_line_comment" ->
           IF ch = carriage_return \/ ch = line_feed
           THEN Res(p, set_state(m, "body"), NoChild, FALSE)
           ELSE Res(p, m, NoChild, TRUE)

whitespace_matcher_consume(p, m, ch) ==
  IF ch = EndOfInput THEN Res(p, set_state(m, "done"), NoChild, TRUE)
  ELSE
    CASE m.state = "crlf" ->
           IF ch = line_feed THEN Res(reset_column(p), set_state(m, "body"), NoChild, TRUE)
           ELSE consume_body(p, set_state(m, "body"), ch)
      [] m.state = "body" -> consume_body(p, m, ch)
      [] m.state = "comment_start" -> consume_comment_start(p, m, ch)
      [] m.state = "multi_line_comment_ending" ->
           Res(p, set_state(m, IF ch = solidus THEN "body" ELSE "multi_line_comment_body"),
               NoChild, TRUE)
      [] m.state = "multi_line_comment_crlf" ->
           IF ch = line_feed
           THEN Res(reset_column(p), set_state(m, "multi_line_comment_body"), NoChild, TRUE)
           ELSE multi_line_comment_body(p, set_state(m, "multi_line_comment_body"), ch)
      [] m.state = "multi_line_comment_body" -> multi_line_comment_body(p, m, ch)
      [] m.state = "single_line_comment" ->
           IF ch = carriage_return \/ ch = line_feed
           THEN Res(p, set_state(m, "body"), NoChild, FALSE)
           ELSE Res(p, m, NoChild, TRUE)

-----------------------------------------------------------------------------
(* eof_matcher, root_matcher, array_matcher, object_matcher                *)

\* eof_matcher::consume without the error for a code point after the value
eof_matcher_consume_tolerant(p, m, ch) ==
  IF ch # EndOfInput
  THEN Res(p, m, NoChild, TRUE)
  ELSE Res(p, set_state(m, "done"), NoChild, TRUE)

eof_matcher_consume(p, m, ch) ==
  IF ch # EndOfInput
  THEN LET e == set_error(p, m, "unexpected_extra_input") IN Res(e.p, e.m, NoChild, TRUE)
  ELSE Res(p, set_state(m, "done"), NoChild, TRUE)

\* a string matcher made without clearing the buffer
make_string_matcher_keeping_buffer(p, m, ch) ==
  Res(p, m, string_matcher(m.object_key_, ch), FALSE)

\* parser::make_terminal_matcher<string_matcher>: the constructor clears the
\* shared buffer.
make_string_matcher(p, m, ch) ==
  Res([p EXCEPT !.string_ = <<>>], m, string_matcher(m.object_key_, ch), FALSE)

\* root_matcher::consume returning as soon as expected_string is stored
root_matcher_consume_returning_early(p, m, ch) ==
  IF ch = EndOfInput THEN
    LET e == set_error(p, m, "expected_token") IN Res(e.p, e.m, NoChild, TRUE)
  ELSE IF m.state = "start" THEN
    Res(p, set_state(m, "new_token"), whitespace_matcher, FALSE)
  ELSE IF m.object_key_ /\ ch # quotation_mark /\ ch # apostrophe THEN
    LET e == set_error(p, m, "expected_string") IN Res(e.p, e.m, NoChild, TRUE)
  ELSE
    LET m1 == set_state(m, "done")
        bad == LET e == set_error(p, m1, "expected_token")
               IN  Res(e.p, e.m, NoChild, TRUE)
    IN
    CASE ch = plus_sign ->
           IF ~extension_enabled(p, "leading_plus") THEN bad
           ELSE Res(p, m1, number_matcher, FALSE)
      [] ch = hyphen_minus \/ IsDigit(ch) -> Res(p, m1, number_matcher, FALSE)
      [] ch = apostrophe ->
           IF ~extension_enabled(p, "single_quote_string") THEN bad
           ELSE make_string_matcher(p, m1, ch)
      [] ch = quotation_mark -> make_string_matcher(p, m1, ch)
      [] ch = latin_small_letter_t -> Res(p, m1, true_token_matcher, FALSE)
      [] ch = latin_small_letter_f -> Res(p, m1, false_token_matcher, FALSE)
      [] ch = latin_small_letter_n -> Res(p, m1, null_token_matcher, FALSE)
      [] ch = left_square_bracket -> Res(p, m1, array_matcher, FALSE)
      [] ch = left_curly_bracket -> Res(p, m1, object_matcher, FALSE)
      [] OTHER -> bad

root_matcher_consume(p, m, ch) ==
  IF ch = EndOfInput THEN
    LET e == set_error(p, m, "expected_token") IN Res(e.p, e.m, NoChild, TRUE)
  ELSE IF m.state = "start" THEN
    Res(p, set_state(m, "new_token"), whitespace_matcher, FALSE)
  ELSE \* new_token_state
    LET k == IF m.object_key_ /\ ch # quotation_mark /\ ch # apostrophe
             THEN set_error(p, m, "expected_string")
             ELSE [p |-> p, m |-> m]
        p1 == k.p
        m1 == set_state(k.m, "done")
        bad == LET e == set_error(p1, m1, "expected_token")
               IN  Res(e.p, e.m, NoChild, TRUE)
    IN
    CASE ch = plus_sign ->
           IF ~extension_enabled(p1, "leading_plus") THEN bad
           ELSE Res(p1, m1, number_matcher, FALSE)
      [] ch = hyphen_minus \/ IsDigit(ch) -> Res(p1, m1, number_matcher, FALSE)
      [] ch = apostrophe ->
           IF ~extension_enabled(p1, "single_quote_string") THEN bad
           ELSE make_string_matcher(p1, m1, ch)
      [] ch = quotation_mark -> make_string_matcher(p1, m1, ch)
      [] ch = latin_small_letter_t -> Res(p1, m1, true_token_matcher, FALSE)
      [] ch = latin_small_letter_f -> Res(p1, m1, false_token_matcher, FALSE)
      [] ch = latin_small_letter_n -> Res(p1, m1, null_token_matcher, FALSE)
      [] ch = left_square_bracket -> Res(p1, m1, array_matcher, FALSE)
      [] ch = left_curly_bracket -> Res(p1, m1, object_matcher, FALSE)
      [] OTHER -> bad

\* array_matcher::end_array dropping what the backend returned
end_array_unchecked(p, m) ==
  LET n == Notify(p, "end_array", <<>>)
  IN  [p |-> n.p, m |-> set_state(m, "done")]

\* array_matcher::end_array
end_array(p, m) ==
  LET n == Notify(p, "end_array", <<>>)
      e == set_error(n.p, m, n.err)
  IN  [p |-> e.p, m |-> set_state(e.m, "done")]

ArrayAfterComma(p) ==
  IF extension_enabled(p, "array_trailing_comma") THEN "first_object" ELSE "object"

array_matcher_consume(p, m, ch) ==
  IF ch = EndOfInput THEN
    LET e == set_error(p, m, "expected_array_member") IN Res(e.p, e.m, NoChild, TRUE)
  ELSE
    CASE m.state = "start" ->
           LET n == Notify(p, "begin_array", <<>>)
               e == set_error(n.p, m, n.err)
           IN  IF e.p.error_ # NoError THEN Res(e.p, e.m, NoChild, TRUE)
               ELSE Res(e.p, set_state(e.m, "first_object"), whitespace_matcher, TRUE)
      [] m.state = "first_object" /\ ch = right_square_bracket ->
           LET r == end_array(p, m) IN Res(r.p, r.m, NoChild, TRUE)
      [] m.state = "object" \/ (m.state = "first_object" /\ ch # right_square_bracket) ->
           Res(p, set_state(m, "comma"), root_matcher(FALSE), FALSE)
      [] m.state = "comma" ->
           IF isspace(ch) THEN Res(p, m, whitespace_matcher, FALSE)
           ELSE IF ch = comma THEN
             Res(p, set_state(m, ArrayAfterComma(p)), whitespace_matcher, TRUE)
           ELSE IF ch = right_square_bracket THEN
             LET r == end_array(p, m) IN Res(r.p, r.m, NoChild, TRUE)
           ELSE LET e == set_error(p, m, "expected_array_member")
                IN  Res(e.p, e.m, NoChild, TRUE)

\* object_matcher::end_object notifying the end of an array
end_object_as_array(p, m) ==
  LET n == Notify(p, "end_array", <<>>)
      e == set_error(n.p, m, n.err)
  IN  [p |-> e.p, m |-> set_state(e.m, "done")]

\* object_matcher::end_object
end_object(p, m) ==
  LET n == Notify(p, "end_object", <<>>)
      e == set_error(n.p, m, n.err)
  IN  [p |-> e.p, m |-> set_state(e.m, "done")]

\* the matcher of a key made as the matcher of a value
make_value_matcher_for_key == root_matcher(FALSE)

\* make_root_matcher (parser, true /*object key*/)
make_key_matcher == root_matcher(TRUE)

\* the state after ',' in an object, chosen by the bit of the array extension
ObjectAfterCommaArrayBit(p) ==
  IF extension_enabled(p, "array_trailing_comma") THEN "first_key" ELSE "key"

ObjectAfterComma(p) ==
  IF extension_enabled(p, "object_trailing_comma") THEN "first_key" ELSE "key"

object_matcher_consume(p, m, ch) ==
  IF ch = EndOfInput THEN
    LET e == set_error(p, m, "expected_object_member") IN Res(e.p, e.m, NoChild, TRUE)
  ELSE
    CASE m.state = "start" ->
           LET n == Notify(p, "begin_object", <<>>)
               e == set_error(n.p, set_state(m, "first_key"), n.err)
           IN  IF e.p.error_ # NoError THEN Res(e.p, e.m, NoChild, TRUE)
               ELSE Res(e.p, e.m, whitespace_matcher, TRUE)
      [] m.state = "first_key" /\ ch = right_curly_bracket ->
           LET r == end_object(p, m) IN Res(r.p, r.m, NoChild, TRUE)
      [] m.state = "key" \/ (m.state = "first_key" /\ ch # right_curly_bracket) ->
           Res(p, set_state(m, "colon"), make_key_matcher, FALSE)
      [] m.state = "colon" ->
           IF isspace(ch) THEN Res(p, m, whitespace_matcher, FALSE)
           ELSE IF ch = colon THEN Res(p, set_state(m, "value"), NoChild, TRUE)
           ELSE LET e == set_error(p, m, "expected_colon") IN Res(e.p, e.m, NoChild, TRUE)
      [] m.state = "value" -> Res(p, set_state(m, "comma"), root_matcher(FALSE), FALSE)
      [] m.state = "comma" ->
           IF isspace(ch) THEN Res(p, m, whitespace_matcher, FALSE)
           ELSE IF ch = comma THEN
             Res(p, set_state(m, ObjectAfterComma(p)), whitespace_matcher, TRUE)
           ELSE IF ch = right_curly_bracket THEN
             LET r == end_object(p, m) IN Res(r.p, r.m, NoChild, TRUE)
           ELSE LET e == set_error(p, m, "expected_object_member")
                IN  Res(e.p, e.m, NoChild, TRUE)

\* matcher::consume, dispatched on the dynamic type of the matcher
consume(p, m, ch) ==
  CASE m.kind = "eof" -> eof_matcher_consume(p, m, ch)
    [] m.kind = "whitespace" -> whitespace_matcher_consume(p, m, ch)
    [] m.kind = "root" -> root_matcher_consume(p, m, ch)
    [] m.kind = "string" -> string_matcher_consume(p, m, ch)
    [] m.kind = "number" -> number_matcher_consume(p, m, ch)
    [] m.kind \in {"true", "false", "null"} -> token_matcher_consume(p, m, ch)
    [] m.kind = "array" -> array_matcher_consume(p, m, ch)
    [] m.kind = "object" -> object_matcher_consume(p, m, ch)

\* matcher::is_done
is_done(m) == m.state = "done"


-----------------------------------------------------------------------------
(* The parser driver.  The parser object is the record of its members.     *)

max_stack_depth_ == 200

\* parser::make_root_matcher
make_root_matcher(object_key) == root_matcher(object_key)

Top(stack) == stack[Len(stack)]
Pop(stack) == SubSeq(stack, 1, Len(stack) - 1)

\* no limit on the stack
StackNeverFull(stack) == FALSE

\* stack_.size () > max_stack_depth_: the new matcher is rejected
StackFull(stack) == Len(stack) > max_stack_depth_

\* parser::consume_code_point.  Delivering to an empty stack is undefined
\* behaviour (stack_.top () of an empty stack): the run is marked aborted.
RECURSIVE consume_code_point(_, _)

\* retry = !res.second; } while (retry);
Retry(p, consumed, code_point) ==
  IF consumed THEN p ELSE consume_code_point(p, code_point)

\* if (res.first != nullptr): the child is pushed unless the stack is full
PushChild(p, child, consumed, code_point) ==
  IF child = NoChild THEN Retry(p, consumed, code_point)
  ELSE IF StackFull(p.stack_) THEN [p EXCEPT !.error_ = "nesting_too_deep"]
  ELSE Retry([p EXCEPT !.stack_ = Append(@, child), !.matcher_pos_ = p.pos_],
             consumed, code_point)

\* The storage of the entry stack[i]: singleton_storage has one slot for the
\* eof matcher, one for the whitespace matcher the constructor pushes above
\* it, one for the root matcher and the variant terminals_ for every other
\* number, string, keyword and whitespace matcher; arrays and objects are
\* allocated with new.
Storage(stack, i) ==
  CASE stack[i].kind = "eof" -> "eof"
    [] stack[i].kind = "whitespace" /\ i = 2 -> "trailing_ws"
    [] stack[i].kind = "root" -> "root"
    [] stack[i].kind \in {"array", "object"} -> "heap"
    [] OTHER -> "terminals_"

\* the storage make_root_matcher, make_terminal_matcher or new gives a child
ChildStorage(child) ==
  CASE child.kind = "root" -> "root"
    [] child.kind \in {"array", "object"} -> "heap"
    [] OTHER -> "terminals_"

\* consume constructed child while an entry of stack lives in its storage
SharesStorage(stack, child) ==
  /\ child # NoChild
  /\ ChildStorage(child) # "heap"
  /\ \E i \in 1..Len(stack) : Storage(stack, i) = ChildStorage(child)

\* the loop of consume_code_point leaving a done root matcher below its child
PopDoneKeepingRoot(p, m, child, consumed, code_point) ==
  IF p.error_ # NoError THEN p
  ELSE IF is_done(m) /\ ~(m.kind = "root" /\ child # NoChild)
  THEN PushChild([p EXCEPT !.stack_ = Pop(@), !.matcher_pos_ = p.pos_],
                 child, consumed, code_point)
  ELSE PushChild(p, child, consumed, code_point)

\* the loop of consume_code_point popping a done matcher after an error too
PopDoneAfterError(p, m, child, consumed, code_point) ==
  IF p.error_ # NoError THEN
    IF is_done(m) THEN [p EXCEPT !.stack_ = Pop(@)] ELSE p
  ELSE IF is_done(m) THEN
    PushChild([p EXCEPT !.stack_ = Pop(@), !.matcher_pos_ = p.pos_], child, consumed,
              code_point)
  ELSE PushChild(p, child, consumed, code_point)

\* if (error_) return; if (handler->is_done ()): the matcher m is popped
PopDone(p, m, child, consumed, code_point) ==
  IF p.error_ # NoError THEN p
  ELSE IF is_done(m)
  THEN PushChild([p EXCEPT !.stack_ = Pop(@), !.matcher_pos_ = p.pos_],
                 child, consumed, code_point)
  ELSE PushChild(p, child, consumed, code_point)

\* the parser after handler->consume returned res: the matcher on top of the
\* stack is in the state consume left it in, and the child was constructed
\* while the stack was as consume found it
Delivered(p, res, code_point) ==
  PopDone([res.p EXCEPT !.stack_[Len(p.stack_)] = res.m,
                        !.sharedStorage = @ \/ SharesStorage(p.stack_, res.child)],
          res.m, res.child, res.consumed, code_point)

consume_code_point(p, code_point) ==
  IF p.stack_ = <<>> THEN [p EXCEPT !.aborted = TRUE]
  ELSE Delivered(p, consume(p, Top(p.stack_), code_point), code_point)

\* input() leaving the column alone after a matcher moved to a new row
AdvanceWithinRow(p) ==
  IF p.error_ = NoError /\ ~p.aborted /\ p.pos_.column # 0 THEN advance_column(p) ELSE p

\* the loop of input() advancing the column after an error as well
AdvanceAfterError(p) == IF ~p.aborted THEN advance_column(p) ELSE p

\* if (!error_) advance_column ();
AdvanceUnlessError(p) ==
  IF p.error_ = NoError /\ ~p.aborted THEN advance_column(p) ELSE p

\* the decoder returned d for a byte: a code point it produced is delivered
Decoded(p, d) ==
  IF d.out = NoCodePoint THEN [p EXCEPT !.utf_ = d.utf]
  ELSE AdvanceUnlessError(consume_code_point([p EXCEPT !.utf_ = d.utf], d.out))

\* One iteration of the loop of parser::input: one byte through the decoder
InputByte(p, b) == Decoded(p, t8_32(p.utf_, b))

\* the loop of parser::input: while (first != last && !error_)
RECURSIVE InputLoop(_, _)
InputLoop(p, src) ==
  IF src = <<>> \/ p.error_ # NoError \/ p.aborted THEN p
  ELSE InputLoop(InputByte(p, Head(src)), Tail(src))

\* parser::input with a decoder that does not outlive the call
input_local_decoder(p, src) ==
  IF p.error_ # NoError THEN p ELSE InputLoop([p EXCEPT !.utf_ = Utf8Initial], src)

\* parser::input counting the columns of the bytes it ignores after an error
input_counting_ignored(p, src) ==
  IF p.error_ # NoError THEN [p EXCEPT !.pos_.column = @ + Len(src)]
  ELSE InputLoop(p, src)

\* parser::input
input(p, src) == IF p.error_ # NoError THEN p ELSE InputLoop(p, src)

\* the loop of parser::eof
RECURSIVE EofLoop(_)
EofLoop(p) ==
  IF p.stack_ = <<>> \/ p.error_ # NoError THEN p
  ELSE
    LET res == consume(p, Top(p.stack_), EndOfInput)
    IN  EofLoop([res.p EXCEPT !.stack_ = Pop(p.stack_)])

\* parser::eof storing an error when the decoder holds part of a character
eof_checking_decoder(p) ==
  IF p.utf_.need > 0 /\ p.error_ = NoError
  THEN Notify([p EXCEPT !.error_ = "bad_unicode_code_point"], "result", <<>>).p
  ELSE Notify(EofLoop(p), "result", <<>>).p

\* parser::eof
eof(p) == Notify(EofLoop(p), "result", <<>>).p

\* parser::parser
NewParser(extensions, fail_at) ==
  [utf_ |-> Utf8Initial,
   stack_ |-> <<eof_matcher, whitespace_matcher, make_root_matcher(FALSE)>>,
   error_ |-> NoError,
   string_ |-> <<>>,
   pos_ |-> [line |-> 1, column |-> 1],
   matcher_pos_ |-> [line |-> 1, column |-> 1],
   extensions_ |-> extensions,
   events |-> <<>>,
   failAt |-> fail_at,
   aborted |-> FALSE,
   assertFailed |-> FALSE,
   sharedStorage |-> FALSE]

-----------------------------------------------------------------------------
(* The state machine: one parser, a caller that feeds it a document in     *)
(* chunks and calls eof().                                                 *)

\* The parser object as a record of the variables
Parser ==
  [utf_ |-> utf_, stack_ |-> stack_, error_ |-> error_, string_ |-> string_,
   pos_ |-> pos_, matcher_pos_ |-> matcher_pos_, extensions_ |-> extensions_,
   events |-> events, failAt |-> failAt, aborted |-> aborted,
   assertFailed |-> assertFailed, sharedStorage |-> sharedStorage]

Becomes(p) ==
  /\ utf_' = p.utf_
  /\ stack_' = p.stack_
  /\ error_' = p.error_
  /\ string_' = p.string_
  /\ pos_' = p.pos_
  /\ matcher_pos_' = p.matcher_pos_
  /\ events' = p.events
  /\ aborted' = p.aborted
  /\ assertFailed' = p.assertFailed
  /\ sharedStorage' = p.sharedStorage
  /\ UNCHANGED <<extensions_, failAt>>

\* Bounds of the caller
MaxChunk == 3
MaxTail == 3
MaxFailAt == 3
MaxEofCalls == 2

\* The document: the bytes passed to input() before the first eof() (of those
\* after the seed, the ones passed before an error was stored)
Fed == SubSeq(seed, 1, seedPos) \o tail

\* What an input() call that returns with the parser p has cut through: a
\* multi-byte character, a number, a keyword, a string, an escape, a CR/LF pair
SplitKinds(p) ==
  IF p.error_ # NoError \/ p.stack_ = <<>> THEN {}
  ELSE
    LET m == Top(p.stack_) IN
    (IF p.utf_.need > 0 THEN {"character"} ELSE {})
    \cup (IF m.kind = "number" THEN {"number"} ELSE {})
    \cup (IF m.kind \in {"true", "false", "null"} THEN {"token"} ELSE {})
    \cup (IF m.kind = "string" /\ m.state = "normal_char" THEN {"string"} ELSE {})
    \cup (IF m.kind = "string" /\ m.state \in {"escape", "hex1", "hex2", "hex3", "hex4"}
          THEN {"escape"} ELSE {})
    \cup (IF m.kind = "whitespace" /\ m.state = "crlf" THEN {"crlf"} ELSE {})

\* the caller's bookkeeping of an input() call that leaves the parser as p
InputCalled(p) ==
  /\ Becomes(p)
  /\ inputAfterEof' = (inputAfterEof \/ eofCalls > 0)
  /\ lateInput' = (lateInput \/ error_ # NoError)
  /\ splits' = IF eofCalls = 0 THEN splits \cup SplitKinds(p) ELSE splits
  /\ UNCHANGED <<seed, alphabet, eofCalls>>

\* input() with the next n bytes of the seed
InputSeed(n) ==
  /\ ~aborted
  /\ seedPos + n <= Len(seed)
  /\ InputCalled(input(Parser, SubSeq(seed, seedPos + 1, seedPos + n)))
  /\ seedPos' = IF eofCalls = 0 THEN seedPos + n ELSE seedPos
  /\ UNCHANGED tail

\* input() with one more byte, after the seed
InputTail(b) ==
  /\ ~aborted
  /\ seedPos = Len(seed)
  /\ Len(tail) < MaxTail
  /\ InputCalled(input(Parser, <<b>>))
  /\ tail' = IF error_ = NoError /\ eofCalls = 0 THEN Append(tail, b) ELSE tail
  /\ UNCHANGED seedPos

\* eof()
Eof ==
  /\ ~aborted
  /\ eofCalls < MaxEofCalls
  /\ Becomes(eof(Parser))
  /\ eofCalls' = eofCalls + 1
  /\ UNCHANGED <<seed, alphabet, seedPos, tail, inputAfterEof, lateInput, splits>>

Next ==
  \/ \E n \in 1..MaxChunk : InputSeed(n)
  \/ \E b \in alphabet : InputTail(b)
  \/ Eof

\* The state after construction, the caller holding one of the given seeds
InitWith(seeds, bytes, extension_sets, fail_ats) ==
  /\ seed \in seeds
  /\ alphabet = bytes
  /\ extensions_ \in extension_sets
  /\ failAt \in fail_ats
  /\ utf_ = Utf8Initial
  /\ stack_ = <<eof_matcher, whitespace_matcher, make_root_matcher(FALSE)>>
  /\ error_ = NoError
  /\ string_ = <<>>
  /\ pos_ = [line |-> 1, column |-> 1]
  /\ matcher_pos_ = [line |-> 1, column |-> 1]
  /\ events = <<>>
  /\ aborted = FALSE
  /\ assertFailed = FALSE
  /\ sharedStorage = FALSE
  /\ seedPos = 0
  /\ tail = <<>>
  /\ eofCalls = 0
  /\ inputAfterEof = FALSE
  /\ lateInput = FALSE
  /\ splits = {}

-----------------------------------------------------------------------------
(* The general specification: short documents over a small alphabet, and   *)
(* longer ones that begin with a given seed.                               *)

\* {"e-acute, backslash u 0 0 e 9":[12, CR LF true]}
MixedDocument ==
  <<123, 34, 195, 169, 92, 117, 48, 48, 101, 57, 34, 58,
    91, 49, 50, 44, 13, 10, 116, 114, 117, 101, 93, 125>>

Seeds ==
  { <<>>,
    MixedDocument,
    <<32, 13, 10, 9>>,                                     \* whitespace only
    <<123, 34, 97, 34, 58, 110, 117, 108, 108, 125>>,      \* {"a":null}
    <<123, 34, 97, 34, 58, 49>>,                           \* {"a":1
    <<34, 97, 34>>,                                        \* "a"
    <<45, 49>>,                                            \* -1
    <<91, 49, 44>>,                                        \* [1,
    <<49, 46, 53>>,                                        \* 1.5
    <<102, 97, 108, 115, 101>>,                            \* false
    <<91, 49, 101, 45, 49, 13, 47, 42, 13, 42, 47, 35>>    \* [1e-1 CR /* CR */ #
  }

Alphabet ==
  {left_square_bracket, right_square_bracket, left_curly_bracket, right_curly_bracket,
   comma, colon, quotation_mark, digit_one, space, latin_small_letter_a}

ExtensionSets == {{}, AllExtensions}

Init == InitWith(Seeds, Alphabet, ExtensionSets, 0..MaxFailAt)

Spec == Init /\ [][Next]_vars

-----------------------------------------------------------------------------
(* The specification of deep documents: nests of containers whose depth is *)
(* close to max_stack_depth_.                                              *)

\* how far below max_stack_depth_ the depths of the nests begin
DepthMargin == 3

NestDepths == (max_stack_depth_ - DepthMargin)..(max_stack_depth_ - 1)

\* d times [
Brackets(d) == [i \in 1..d |-> left_square_bracket]

\* d nested arrays, the innermost empty
EmptyNest(d) == Brackets(d) \o [i \in 1..d |-> right_square_bracket]

\* d nested arrays, the innermost holding the number 1
ScalarNest(d) == Brackets(d) \o <<digit_one>> \o [i \in 1..d |-> right_square_bracket]

\* {"a":[
ObjectAndArray ==
  <<left_curly_bracket, quotation_mark, latin_small_letter_a, quotation_mark, colon,
    left_square_bracket>>

\* an array in an object in an array ..., 2 * k containers, none closed
MixedNest(k) == [i \in 1..(6 * k) |-> ObjectAndArray[((i - 1) % 6) + 1]]

DeepSeeds ==
  {Brackets(max_stack_depth_ - 2), Brackets(max_stack_depth_ + 1),
   MixedNest((max_stack_depth_ \div 2) + 1)}
  \cup {EmptyNest(d) : d \in NestDepths}
  \cup {ScalarNest(d) : d \in NestDepths}

\* no quotation mark: the brackets of a tail are never inside a string
DeepAlphabet == {left_square_bracket, right_square_bracket, left_curly_bracket, digit_one}

InitDeep == InitWith(DeepSeeds, DeepAlphabet, {{}}, {0, MaxFailAt})

SpecDeep == InitDeep /\ [][Next]_vars

-----------------------------------------------------------------------------
(* The specification of integer literals: the first digits of literals     *)
(* close to the limits of the 64-bit types, followed by any digits.        *)

\* the bytes of a sequence of decimal digits
DigitBytes(digits) == [i \in 1..Len(digits) |-> digit_zero + digits[i]]

NumberSeeds ==
  { <<hyphen_minus>>,
    DigitBytes(<<7>>),
    \* 2^64 - 1 = 18446744073709551615 without its last digit
    DigitBytes(<<1, 8, 4, 4, 6, 7, 4, 4, 0, 7, 3, 7, 0, 9, 5, 5, 1, 6, 1>>),
    \* 2 * (2^64 - 1) = 36893488147419103230 without its last digit
    DigitBytes(<<3, 6, 8, 9, 3, 4, 8, 8, 1, 4, 7, 4, 1, 9, 1, 0, 3, 2, 3>>),
    \* -2^63 = -9223372036854775808 without its last digit
    <<hyphen_minus>> \o
      DigitBytes(<<9, 2, 2, 3, 3, 7, 2, 0, 3, 6, 8, 5, 4, 7, 7, 5, 8, 0>>) }

Digits == digit_zero..digit_nine

InitNum == InitWith(NumberSeeds, Digits, {{}}, {0})

SpecNum == InitNum /\ [][Next]_vars

-----------------------------------------------------------------------------
(* What the sink has seen                                                   *)

\* the callbacks other than result()
CallbackEvents == SelectSeq(events, LAMBDA e : e.cb # "result")

\* the failAt-th callback was made and is one whose error the parser looks at
SinkFailed == failAt \in 1..Len(events) /\ events[failAt].cb # "result"

Mismatch == <<"mismatch">>

\* The containers left open by the callbacks evs[i..], open being the ones
\* open before; Mismatch if an end does not match the innermost begin or a key
\* is reported outside an object.
RECURSIVE OpenContainers(_, _, _)
OpenContainers(evs, i, open) ==
  IF i > Len(evs) THEN open
  ELSE
    LET cb == evs[i].cb IN
    CASE cb = "begin_array" -> OpenContainers(evs, i + 1, Append(open, "array"))
      [] cb = "begin_object" -> OpenContainers(evs, i + 1, Append(open, "object"))
      [] cb = "end_array" ->
           IF open # <<>> /\ Top(open) = "array"
           THEN OpenContainers(evs, i + 1, Pop(open)) ELSE Mismatch
      [] cb = "end_object" ->
           IF open # <<>> /\ Top(open) = "object"
           THEN OpenContainers(evs, i + 1, Pop(open)) ELSE Mismatch
      [] cb = "key" ->
           IF open # <<>> /\ Top(open) = "object"
           THEN OpenContainers(evs, i + 1, open) ELSE Mismatch
      [] OTHER -> OpenContainers(evs, i + 1, open)

ScalarCallbacks ==
  {"string_value", "int64_value", "uint64_value", "double_value", "boolean_value",
   "null_value"}

\* a value has ended inside open: an object that waited for it now waits for a key
AfterValue(open) ==
  IF open # <<>> /\ Top(open) = "value" THEN Append(Pop(open), "key") ELSE open

\* The callbacks evs[i..] read as a document: open holds "array" for an open
\* array, "key" for an open object that expects a key or its end, "value" for
\* one that expects the value of the key just reported; values counts the
\* top-level values that have ended.  ok is FALSE if a callback comes where
\* the document order does not allow it.
RECURSIVE DocumentOrder(_, _, _, _)
DocumentOrder(evs, i, open, values) ==
  IF i > Len(evs) THEN [ok |-> TRUE, open |-> open, values |-> values]
  ELSE
    LET cb == evs[i].cb
        bad == [ok |-> FALSE, open |-> open, values |-> values]
        value_allowed == open = <<>> \/ Top(open) \in {"array", "value"}
        ended(o) == DocumentOrder(evs, i + 1, AfterValue(o),
                                  IF o = <<>> THEN values + 1 ELSE values)
    IN
    CASE cb \in ScalarCallbacks -> IF value_allowed THEN ended(open) ELSE bad
      [] cb = "begin_array" ->
           IF value_allowed THEN DocumentOrder(evs, i + 1, Append(open, "array"), values)
           ELSE bad
      [] cb = "begin_object" ->
           IF value_allowed THEN DocumentOrder(evs, i + 1, Append(open, "key"), values)
           ELSE bad
      [] cb = "end_array" ->
           IF open # <<>> /\ Top(open) = "array" THEN ended(Pop(open)) ELSE bad
      [] cb = "end_object" ->
           IF open # <<>> /\ Top(open) = "key" THEN ended(Pop(open)) ELSE bad
      [] cb = "key" ->
           IF open # <<>> /\ Top(open) = "key"
           THEN DocumentOrder(evs, i + 1, Append(Pop(open), "value"), values)
           ELSE bad
      [] OTHER -> bad

Order == DocumentOrder(CallbackEvents, 1, <<>>, 0)

\* The maximal runs of digits of doc[i..], in order; run is the one being read
RECURSIVE DigitRuns(_, _, _)
DigitRuns(doc, i, run) ==
  IF i > Len(doc) THEN (IF run = <<>> THEN <<>> ELSE <<run>>)
  ELSE IF IsDigit(doc[i]) THEN DigitRuns(doc, i + 1, Append(run, doc[i] - digit_zero))
  ELSE (IF run = <<>> THEN <<>> ELSE <<run>>) \o DigitRuns(doc, i + 1, <<>>)

\* a document of nothing but arrays of unsigned numbers
ArraysOfNumbers(doc) ==
  \A i \in 1..Len(doc) :
    doc[i] \in {left_square_bracket, right_square_bracket, comma, space} \/ IsDigit(doc[i])

AllWhitespace(doc) == \A i \in 1..Len(doc) : isspace(doc[i])

\* One input() call with the whole of doc, then eof(), on a fresh parser that
\* has the extensions and the sink of the current one
ReferenceRun(doc) == eof(input(NewParser(extensions_, failAt), doc))

ValidDocument(doc) == ReferenceRun(doc).error_ = NoError

-----------------------------------------------------------------------------
(* Properties of the general specification                                  *)

\* C1: chunking equivalence.  A valid document passed in any sequence of
\* chunks and followed by eof() gives the sink exactly the callbacks, in the
\* same order, that one input() call with the whole document and eof() give,
\* and no error.
ChunkingEquivalence ==
  (eofCalls = 1 /\ ~inputAfterEof /\ ValidDocument(Fed)) =>
    (events = ReferenceRun(Fed).events /\ error_ = NoError)

\* a document accepted after chunk boundaries inside a multi-byte character,
\* a number, a keyword, a string, an escape and a CR/LF pair
ChunkingEquivalenceWitness ==
  /\ eofCalls = 1 /\ ~inputAfterEof /\ error_ = NoError
  /\ Fed = MixedDocument
  /\ splits = {"character", "number", "token", "string", "escape", "crlf"}

\* C2: errors are sticky.  Once an error is stored, an input() call makes no
\* sink callback and leaves last_error(), the stack, pos() and input_pos()
\* as they were.
StickyError ==
  [][(error_ # NoError /\ eofCalls' = eofCalls) =>
       /\ events' = events
       /\ error_' = error_
       /\ stack_' = stack_
       /\ pos_' = pos_
       /\ matcher_pos_' = matcher_pos_]_vars

\* input() was called after an error that followed some callbacks
StickyErrorWitness ==
  lateInput /\ error_ \notin {NoError, SinkError} /\ events # <<>> /\ eofCalls = 0

\* C3: an error returned by a sink callback, during input() or eof(), becomes
\* last_error() and stays; no callback other than result() follows it.
SinkErrorPropagates ==
  SinkFailed =>
    /\ error_ = SinkError
    /\ \A i \in (failAt + 1)..Len(events) : events[i].cb = "result"

\* the sink failed, then saw more input and eof()
SinkErrorPropagatesWitness ==
  SinkFailed /\ lateInput /\ eofCalls >= 1 /\ error_ = SinkError

\* C4: the callbacks are well nested.  An end_array/end_object closes the
\* innermost open begin_array/begin_object, key is reported only inside an
\* object, and after an eof() without error every begin has had its end.
WellNested ==
  /\ OpenContainers(CallbackEvents, 1, <<>>) # Mismatch
  /\ (eofCalls >= 1 /\ error_ = NoError) => OpenContainers(CallbackEvents, 1, <<>>) = <<>>

\* an object holding an array has been reported to its end
WellNestedWitness ==
  /\ eofCalls >= 1 /\ error_ = NoError
  /\ \E i, j, k, l \in 1..Len(events) :
       /\ i < j /\ j < k /\ k < l
       /\ events[i].cb = "begin_object" /\ events[j].cb = "begin_array"
       /\ events[k].cb = "end_array" /\ events[l].cb = "end_object"

\* C5: the callbacks come in document order.  In an object a key is followed
\* at once by the first callback of its value, and the next key or the end
\* comes only after that value; the callback of a scalar in a container comes
\* after the container's begin and before its end; the elements of an array
\* are reported in the order of the source.
InDocumentOrder ==
  /\ Order.ok
  /\ ArraysOfNumbers(Fed) =>
       LET numbers == SelectSeq(CallbackEvents, LAMBDA e : e.cb = "uint64_value")
           runs == DigitRuns(Fed, 1, <<>>)
       IN  /\ Len(numbers) <= Len(runs)
           /\ \A i \in 1..Len(numbers) : U64Digits(numbers[i].arg) = runs[i]

\* two numbers of an array, the second reported when the array ends
InDocumentOrderWitness ==
  /\ ArraysOfNumbers(Fed) /\ error_ = NoError
  /\ Len(CallbackEvents) = 4
  /\ CallbackEvents[1].cb = "begin_array"
  /\ CallbackEvents[2].cb = "uint64_value" /\ CallbackEvents[3].cb = "uint64_value"
  /\ CallbackEvents[2].arg # CallbackEvents[3].arg
  /\ CallbackEvents[4].cb = "end_array"

\* eof() ends without error only after exactly one whole top-level value
OneTopLevelValue ==
  (eofCalls >= 1 /\ error_ = NoError) =>
    (Order.ok /\ Order.open = <<>> /\ Order.values = 1)

\* empty or whitespace-only input ends with expected_token
NoValueAtAll ==
  (eofCalls >= 1 /\ AllWhitespace(Fed)) => error_ = "expected_token"

\* with no extensions, a byte other than whitespace passed after the
\* top-level value has ended
ExtraInputStep ==
  /\ extensions_ = {} /\ error_ = NoError /\ eofCalls = 0
  /\ Order.ok /\ Order.open = <<>> /\ Order.values = 1
  /\ tail' # tail
  /\ ~isspace(tail'[Len(tail')])

\* C6: exactly one top-level value.  eof() ends without error only if the
\* sink has the callbacks of exactly one whole top-level value; with no
\* extensions a code point other than whitespace after the top-level value
\* sets unexpected_extra_input; empty or whitespace-only input ends with
\* expected_token.
ExactlyOneValue ==
  /\ []OneTopLevelValue
  /\ []NoValueAtAll
  /\ [][ExtraInputStep => error_' = "unexpected_extra_input"]_vars

\* a whole array followed by one more byte
ExactlyOneValueWitness ==
  /\ extensions_ = {} /\ error_ = "unexpected_extra_input"
  /\ Order.open = <<>> /\ Order.values = 1
  /\ CallbackEvents[1].cb = "begin_array"

-----------------------------------------------------------------------------
(* Properties of the specification of deep documents                       *)

\* The nesting of doc[i..j]: net is the number of containers it opens less the
\* number it closes, peak the largest such number over its prefixes.  (The
\* brackets are counted wherever they are: the deep documents have none in a
\* string.)
RECURSIVE Nesting(_, _, _)
Nesting(doc, i, j) ==
  IF i > j THEN [net |-> 0, peak |-> 0]
  ELSE IF i = j THEN
    IF doc[i] \in {left_square_bracket, left_curly_bracket} THEN [net |-> 1, peak |-> 1]
    ELSE IF doc[i] \in {right_square_bracket, right_curly_bracket}
    THEN [net |-> 0 - 1, peak |-> 0]
    ELSE [net |-> 0, peak |-> 0]
  ELSE
    LET mid == (i + j) \div 2
        l == Nesting(doc, i, mid)
        r == Nesting(doc, mid + 1, j)
    IN  [net |-> l.net + r.net,
         peak |-> IF l.peak >= l.net + r.peak THEN l.peak ELSE l.net + r.peak]

\* the deepest nesting of containers that doc opens
OpenDepth(doc) == Nesting(doc, 1, Len(doc)).peak

\* doc passed to the parser p by input() calls of at most MaxChunk bytes
RECURSIVE FeedRange(_, _, _, _)
FeedRange(p, doc, i, j) ==
  IF j - i < MaxChunk THEN input(p, SubSeq(doc, i, j))
  ELSE LET mid == (i + j) \div 2
           half == FeedRange(p, doc, i, mid)
       IN  IF half.aborted THEN half ELSE FeedRange(half, doc, mid + 1, j)

\* doc passed in chunks to a fresh parser that has the extensions and the
\* sink of the current one, then eof()
ChunkedRun(doc) == eof(FeedRange(NewParser(extensions_, failAt), doc, 1, Len(doc)))

\* C7: the parse stack never holds more than max_stack_depth_ (200) matchers.
StackWithinLimit == Len(stack_) <= max_stack_depth_

\* C8: a document that opens more than 200 nested containers ends with
\* nesting_too_deep (unless the sink failed first), and the stack does not
\* grow with the nesting of such a document.
DeepNestingRejected ==
  /\ (Len(Fed) > max_stack_depth_ /\ OpenDepth(Fed) > max_stack_depth_ /\ ~SinkFailed)
       => error_ = "nesting_too_deep"
  /\ Len(stack_) <= max_stack_depth_ + 1

\* 201 [ have been passed, and eof() called
DeepNestingRejectedWitness ==
  /\ Fed = Brackets(max_stack_depth_ + 1)
  /\ eofCalls = 1 /\ failAt = 0
  /\ error_ = "nesting_too_deep"

\* C9: nesting_too_deep depends on the depth and not on the shape.  d nested
\* arrays whose innermost is empty are accepted exactly if d nested arrays
\* whose innermost holds one scalar are.
DepthNotShape ==
  \A d \in NestDepths :
    (Fed = EmptyNest(d) /\ eofCalls = 1 /\ ~inputAfterEof) =>
      ((error_ = NoError) <=> (ChunkedRun(ScalarNest(d)).error_ = NoError))

-----------------------------------------------------------------------------
(* Properties of the specification of integer literals                     *)

\* doc is an optional '-' and digits, with no leading zero
IntegerLiteral(doc) ==
  LET from == IF doc # <<>> /\ doc[1] = hyphen_minus THEN 2 ELSE 1 IN
  /\ Len(doc) >= from
  /\ \A i \in from..Len(doc) : IsDigit(doc[i])
  /\ doc[from] = digit_zero => Len(doc) = from

\* the digits of an integer literal
LiteralDigits(doc) ==
  LET from == IF doc[1] = hyphen_minus THEN 2 ELSE 1
  IN  [i \in 1..(Len(doc) - from + 1) |-> doc[from + i - 1] - digit_zero]

\* a <= b for decimal numerals without leading zeros
DecimalLeq(a, b) ==
  \/ Len(a) < Len(b)
  \/ /\ Len(a) = Len(b)
     /\ \A i \in 1..Len(a) : (\A k \in 1..(i - 1) : a[k] = b[k]) => a[i] <= b[i]

\* 2^64 - 1
UInt64Max == <<1, 8, 4, 4, 6, 7, 4, 4, 0, 7, 3, 7, 0, 9, 5, 5, 1, 6, 1, 5>>
\* 2^63
Int64MinMagnitude == <<9, 2, 2, 3, 3, 7, 2, 0, 3, 6, 8, 5, 4, 7, 7, 5, 8, 0, 8>>

\* the decimal numeral of a 64-bit value
Numeral(a) == IF a = U64Zero THEN <<0>> ELSE U64Digits(a)

\* C10: integer literals.  A literal with no '-' and a magnitude of at most
\* 2^64 - 1 is reported as uint64_value with exactly that value; a literal
\* with '-' and a magnitude of at most 2^63 as int64_value with the negated
\* value; any other integer literal gives number_out_of_range and no numeric
\* callback: an over-long literal never gets through with a wrapped value.
IntegerSemantics ==
  (eofCalls = 1 /\ ~inputAfterEof /\ failAt = 0 /\ IntegerLiteral(Fed)) =>
    LET negative == Fed[1] = hyphen_minus
        digits == LiteralDigits(Fed)
    IN
    IF ~negative /\ DecimalLeq(digits, UInt64Max) THEN
      /\ error_ = NoError
      /\ Len(CallbackEvents) = 1
      /\ events[1].cb = "uint64_value"
      /\ Numeral(events[1].arg) = digits
    ELSE IF negative /\ DecimalLeq(digits, Int64MinMagnitude) THEN
      /\ error_ = NoError
      /\ Len(CallbackEvents) = 1
      /\ events[1].cb = "int64_value"
      /\ Numeral(I64Negate(events[1].arg)) = digits
    ELSE
      /\ error_ = "number_out_of_range"
      /\ CallbackEvents = <<>>

-----------------------------------------------------------------------------
(* The specification of number literals: a sign, digits, a fraction and an *)
(* exponent, as the whole document.                                        *)

NumberBytes ==
  {hyphen_minus, plus_sign, digit_zero, digit_one, full_stop, latin_small_letter_e}

FloatSeeds ==
  { <<>>,
    <<hyphen_minus, digit_one>>,                                   \* -1
    <<digit_one, latin_capital_letter_e>>,                         \* 1E
    <<digit_one, latin_small_letter_e, digit_one, digit_zero>>,    \* 1e10
    \* 1e4294967296: the exponent is 2^32
    <<digit_one, latin_small_letter_e>> \o DigitBytes(<<4, 2, 9, 4, 9, 6, 7, 2, 9, 6>>) }

InitFloat == InitWith(FloatSeeds, NumberBytes, ExtensionSets, {0, 1})

SpecFloat == InitFloat /\ [][Next]_vars

\* the literal has a fraction or an exponent
HasFractionOrExponent(doc) ==
  \E i \in 1..Len(doc) :
    doc[i] \in {full_stop, latin_small_letter_e, latin_capital_letter_e}

NumericCallbacks == {"int64_value", "uint64_value", "double_value"}

\* C11: a number that completes without error makes exactly one numeric
\* callback: double_value exactly if the literal has a '.' or an exponent,
\* an integer callback otherwise, and uint64_value (never int64_value) for an
\* integral literal without '-'.
OneNumericCallback ==
  (eofCalls = 1 /\ ~inputAfterEof /\ error_ = NoError) =>
    /\ Len(CallbackEvents) = 1
    /\ events[1].cb \in NumericCallbacks
    /\ (events[1].cb = "double_value") <=> HasFractionOrExponent(Fed)
    /\ (~HasFractionOrExponent(Fed) /\ Fed[1] # hyphen_minus) => events[1].cb = "uint64_value"

\* a negative literal with a fraction was reported as a double
OneNumericCallbackWitness ==
  /\ eofCalls = 1 /\ ~inputAfterEof /\ error_ = NoError
  /\ events[1].cb = "double_value"
  /\ Fed[1] = hyphen_minus
  /\ \E i \in 1..Len(Fed) : Fed[i] = full_stop

\* C12: the input -0 is reported as uint64_value(0).
NegativeZeroUnsigned ==
  (Fed = <<hyphen_minus, digit_zero>> /\ eofCalls = 1 /\ ~inputAfterEof /\ failAt = 0) =>
    /\ error_ = NoError
    /\ CallbackEvents = <<[cb |-> "uint64_value", arg |-> U64Zero]>>

\* doc is a number with an exponent of at least 1000: a mantissa, e or E, an
\* optional '+' and digits of which at least four follow the leading zeros
HugeExponent(doc) ==
  \E k \in 2..Len(doc) :
    /\ doc[k] \in {latin_small_letter_e, latin_capital_letter_e}
    /\ \A i \in 1..(k - 1) : IsDigit(doc[i]) \/ doc[i] \in {hyphen_minus, full_stop}
    /\ LET from == IF k < Len(doc) /\ doc[k + 1] = plus_sign THEN k + 2 ELSE k + 1 IN
       /\ from <= Len(doc)
       /\ \A i \in from..Len(doc) : IsDigit(doc[i])
       /\ \E i \in from..Len(doc) : doc[i] # digit_zero /\ Len(doc) - i >= 3

\* C13: a number whose exponent is too large for 10^exponent to be finite
\* (1e1000 and above, however long the exponent) gives number_out_of_range
\* and no double_value callback: the exponent accumulator never wraps to a
\* small value that is accepted.
HugeExponentRejected ==
  (eofCalls = 1 /\ ~inputAfterEof /\ failAt = 0 /\ HugeExponent(Fed)) =>
    /\ error_ = "number_out_of_range"
    /\ CallbackEvents = <<>>

-----------------------------------------------------------------------------
(* The specification of malformed UTF-8: bytes that are no UTF-8, inside   *)
(* and outside a string.                                                   *)

\* ", a, the two bytes of e-acute (C3 A9), an overlong lead byte (C0), the
\* lead byte of a three-byte sequence (E2) and a byte that is never valid (FF)
Utf8Bytes == {quotation_mark, latin_small_letter_a, 195, 169, 192, 226, 255}

Utf8Seeds ==
  { <<>>,
    <<quotation_mark>>,
    <<left_square_bracket, quotation_mark, latin_small_letter_a>> }

InitUtf8 == InitWith(Utf8Seeds, Utf8Bytes, {{}}, {0, 1})

SpecUtf8 == InitUtf8 /\ [][Next]_vars

\* the bytes of U+FFFD, which the decoder puts in the place of malformed bytes
ReplacementBytes == Utf8Encode(replacement_char)

\* text holds the bytes of U+FFFD
HoldsReplacement(text) ==
  \E i \in 1..(Len(text) - 2) : SubSeq(text, i, i + 2) = ReplacementBytes

\* C14: when the UTF-8 decoder signals a malformed byte sequence the parser
\* sets bad_unicode_code_point, and nothing derived from the malformed bytes
\* reaches a matcher or the sink.
MalformedUtf8Rejected ==
  (~utf_.well_formed /\ ~inputAfterEof) =>
    /\ error_ = "bad_unicode_code_point"
    /\ ~HoldsReplacement(string_)
    /\ \A i \in 1..Len(events) :
         events[i].cb \in {"string_value", "key"} => ~HoldsReplacement(events[i].arg)

-----------------------------------------------------------------------------
(* The specification of \u escapes: strings that hold surrogate escapes,   *)
(* paired and unpaired.                                                    *)

\* the character of hexadecimal digit d, upper case
HexDigitByte(d) == IF d < 10 THEN digit_zero + d ELSE latin_capital_letter_a + (d - 10)

\* the six bytes of the escape \uXXXX with the hexadecimal digits d
UnicodeEscape(d) ==
  <<reverse_solidus, latin_small_letter_u>> \o [i \in 1..4 |-> HexDigitByte(d[i])]

HighEscape == UnicodeEscape(<<13, 8, 0, 0>>)
LowEscape == UnicodeEscape(<<13, 12, 0, 0>>)

\* ", \, u, the digits D 8 C 0, the ordinary character z and the escape letter n
EscapeBytes ==
  {quotation_mark, reverse_solidus, latin_small_letter_u, HexDigitByte(13),
   HexDigitByte(8), HexDigitByte(12), digit_zero, latin_small_letter_z,
   latin_small_letter_n}

SurrogateSeeds ==
  { <<quotation_mark>>,
    <<quotation_mark>> \o HighEscape,
    <<quotation_mark>> \o HighEscape \o SubSeq(LowEscape, 1, 5),
    <<quotation_mark>> \o HighEscape \o <<latin_small_letter_z>> \o SubSeq(LowEscape, 1, 5),
    <<quotation_mark>> \o HighEscape \o <<reverse_solidus, latin_small_letter_n>>
       \o SubSeq(LowEscape, 1, 5),
    <<quotation_mark>> \o HighEscape \o SubSeq(HighEscape, 1, 5),
    <<quotation_mark>> \o SubSeq(LowEscape, 1, 5),
    <<left_curly_bracket, quotation_mark>> \o HighEscape \o SubSeq(LowEscape, 1, 5) }

InitSurrogate == InitWith(SurrogateSeeds, EscapeBytes, {{}}, {0, 1})

SpecSurrogate == InitSurrogate /\ [][Next]_vars

SimpleEscapeLetters ==
  {quotation_mark, apostrophe, solidus, reverse_solidus, latin_small_letter_b,
   latin_small_letter_f, latin_small_letter_n, latin_small_letter_r,
   latin_small_letter_t}

\* the UTF-16 code unit the four hexadecimal digits doc[i..i+3] spell,
\* NoHexValue if one of them is no hexadecimal digit
RECURSIVE CodeUnit(_, _, _, _)
CodeUnit(doc, i, n, value) ==
  IF n = 0 THEN value
  ELSE IF hex_value(doc[i], 0) = NoHexValue THEN NoHexValue
  ELSE CodeUnit(doc, i + 1, n - 1, 16 * value + hex_value(doc[i], 0))

EscapeKind(cu) ==
  IF cu = NoHexValue THEN "bad"
  ELSE IF is_high_surrogate(cu) THEN "high"
  ELSE IF is_low_surrogate(cu) THEN "low"
  ELSE "bmp"

\* The items of the double-quoted string literal whose text starts at doc[i]:
\* "char", "simple", "high", "low", "bmp", then "close" for the closing
\* quote; "open" when the text ends inside the literal, "bad" for what is no
\* item and for bytes after the closing quote.
RECURSIVE StringItems(_, _)
StringItems(doc, i) ==
  IF i > Len(doc) THEN <<"open">>
  ELSE IF doc[i] = quotation_mark THEN
    IF i = Len(doc) THEN <<"close">> ELSE <<"bad">>
  ELSE IF doc[i] # reverse_solidus THEN
    <<IF doc[i] <= last_control_character THEN "bad" ELSE "char">> \o StringItems(doc, i + 1)
  ELSE IF i + 1 > Len(doc) THEN <<"open">>
  ELSE IF doc[i + 1] = latin_small_letter_u THEN
    IF i + 5 > Len(doc) THEN <<"open">>
    ELSE <<EscapeKind(CodeUnit(doc, i + 2, 4, 0))>> \o StringItems(doc, i + 6)
  ELSE <<IF doc[i + 1] \in SimpleEscapeLetters THEN "simple" ELSE "bad">>
         \o StringItems(doc, i + 2)

\* every high surrogate is directly followed by a low one, every low
\* surrogate directly follows a high one
Paired(items) ==
  \A k \in 1..Len(items) :
    /\ items[k] = "high" => k < Len(items) /\ items[k + 1] = "low"
    /\ items[k] = "low" => k > 1 /\ items[k - 1] = "high"

\* doc is one complete double-quoted string literal with legal items
StringLiteral(doc) ==
  /\ Len(doc) >= 2
  /\ doc[1] = quotation_mark
  /\ \A k \in 1..Len(StringItems(doc, 2)) : StringItems(doc, 2)[k] \notin {"bad", "open"}

HasStringCallback == \E i \in 1..Len(events) : events[i].cb \in {"string_value", "key"}

\* C15: a string literal with \u escapes is accepted exactly when every high
\* surrogate escape is directly followed by a low surrogate escape and no low
\* surrogate stands alone; otherwise the error is bad_unicode_code_point and
\* there is no string_value or key callback.
SurrogatePairing ==
  (StringLiteral(Fed) /\ failAt = 0 /\ ~inputAfterEof) =>
    IF Paired(StringItems(Fed, 2))
    THEN error_ = NoError /\ HasStringCallback
    ELSE error_ = "bad_unicode_code_point" /\ ~HasStringCallback

-----------------------------------------------------------------------------
(* The specification of two-character escapes, in strings of both quotes.  *)

SimpleEscapeBytes ==
  SimpleEscapeLetters \cup {latin_small_letter_z, latin_small_letter_a}

SimpleEscapeSeeds ==
  { <<quotation_mark>>,
    <<apostrophe>>,
    <<quotation_mark, reverse_solidus>>,
    <<apostrophe, reverse_solidus>>,
    <<left_square_bracket, quotation_mark, latin_small_letter_z, reverse_solidus>> }

InitEscape == InitWith(SimpleEscapeSeeds, SimpleEscapeBytes, ExtensionSets, {0, 1})

SpecEscape == InitEscape /\ [][Next]_vars

\* the character a two-character escape stands for
EscapeMeaning(c) ==
  CASE c = latin_small_letter_b -> backspace
    [] c = latin_small_letter_f -> form_feed
    [] c = latin_small_letter_n -> line_feed
    [] c = latin_small_letter_r -> carriage_return
    [] c = latin_small_letter_t -> character_tabulation
    [] OTHER -> c

\* The string literal whose text starts at doc[i], q its enclosing quote and
\* text what the items before doc[i] stand for: "value" and the whole text
\* when doc ends with the closing quote, "inside" when it ends after an item
\* of the string, "invalid" when it ends with a backslash and a character
\* that is no escape letter, "other" otherwise.
RECURSIVE Unescape(_, _, _, _)
Unescape(doc, i, q, text) ==
  IF i > Len(doc) THEN [kind |-> "inside", text |-> text]
  ELSE IF doc[i] = q THEN
    [kind |-> IF i = Len(doc) THEN "value" ELSE "other", text |-> text]
  ELSE IF doc[i] # reverse_solidus THEN Unescape(doc, i + 1, q, Append(text, doc[i]))
  ELSE IF i + 1 > Len(doc) \/ doc[i + 1] = latin_small_letter_u
    THEN [kind |-> "other", text |-> text]
  ELSE IF doc[i + 1] \notin SimpleEscapeLetters THEN
    [kind |-> IF i + 1 = Len(doc) THEN "invalid" ELSE "other", text |-> text]
  ELSE Unescape(doc, i + 2, q, Append(text, EscapeMeaning(doc[i + 1])))

\* the quotes that open a string
Quotes ==
  {quotation_mark}
    \cup (IF "single_quote_string" \in extensions_ THEN {apostrophe} ELSE {})

\* C16: in a string of either quote \" \' \/ \\ append the character itself,
\* \b \f \n \r \t append 08 0C 0A 0D 09, and any other character after a
\* backslash, 'u' apart, gives invalid_escape_char.
SimpleEscapes ==
  (Len(Fed) >= 1 /\ Fed[1] \in Quotes /\ failAt = 0 /\ ~inputAfterEof) =>
    /\ Unescape(Fed, 2, Fed[1], <<>>).kind = "value" =>
         /\ error_ = NoError
         /\ CallbackEvents
              = <<[cb |-> "string_value", arg |-> Unescape(Fed, 2, Fed[1], <<>>).text]>>
    /\ (Unescape(Fed, 2, Fed[1], <<>>).kind = "inside" /\ eofCalls = 0) =>
         /\ error_ = NoError
         /\ string_ = Unescape(Fed, 2, Fed[1], <<>>).text
    /\ Unescape(Fed, 2, Fed[1], <<>>).kind = "invalid" =>
         /\ error_ = "invalid_escape_char"
         /\ CallbackEvents = <<>>

-----------------------------------------------------------------------------
(* The specification of object keys: what stands where a key is expected.  *)

KeyBytes ==
  {digit_one, hyphen_minus, plus_sign, latin_small_letter_t, latin_small_letter_z,
   left_square_bracket, left_curly_bracket, right_curly_bracket, colon, comma,
   space, quotation_mark}

\* {"a":1,
FirstMember ==
  <<left_curly_bracket, quotation_mark, latin_small_letter_a, quotation_mark,
    colon, digit_one, comma>>

KeySeeds ==
  { <<left_curly_bracket>>,
    <<left_curly_bracket, space>>,
    FirstMember,
    FirstMember \o <<line_feed>>,
    <<left_square_bracket>> \o FirstMember,
    SubSeq(FirstMember, 1, 5),
    <<left_square_bracket>> }

InitKey == InitWith(KeySeeds, KeyBytes, ExtensionSets, {0, 1})

SpecKey == InitKey /\ [][Next]_vars

\* what is left of doc without the whitespace at its end
RECURSIVE TrimRight(_)
TrimRight(doc) ==
  IF doc # <<>> /\ isspace(doc[Len(doc)]) THEN TrimRight(SubSeq(doc, 1, Len(doc) - 1))
  ELSE doc

\* doc without its last byte
Front(doc) == SubSeq(doc, 1, Len(doc) - 1)

\* doc ends with the first code point that is no whitespace at a place where
\* an object key is expected, and that code point opens no string; a '}'
\* that closes the object is set aside.
KeyPosition(doc) ==
  /\ doc # <<>>
  /\ ~isspace(doc[Len(doc)])
  /\ doc[Len(doc)] \notin {quotation_mark, apostrophe}
  /\ \/ /\ TrimRight(Front(doc)) \in {<<left_curly_bracket>>,
                                      <<left_square_bracket, left_curly_bracket>>}
        /\ doc[Len(doc)] # right_curly_bracket
     \/ /\ TrimRight(Front(doc)) \in {FirstMember, <<left_square_bracket>> \o FirstMember}
        /\ doc[Len(doc)] = right_curly_bracket => "object_trailing_comma" \notin extensions_

\* c is the first code point of a value that is no string
StartsValue(c) ==
  \/ IsDigit(c)
  \/ c \in {hyphen_minus, latin_small_letter_t, latin_small_letter_f,
            latin_small_letter_n, left_square_bracket, left_curly_bracket}
  \/ c = plus_sign /\ "leading_plus" \in extensions_

\* C17: where an object key is expected and the first code point that is no
\* whitespace is neither " nor ', the error is expected_string whatever the
\* code point is; expected_token never replaces it.
KeyExpectedString ==
  (KeyPosition(Fed) /\ failAt = 0 /\ ~inputAfterEof) => error_ = "expected_string"

\* C17 as the code has it: the error is expected_string when the code point
\* starts a value that is no string, expected_token when it starts no value.
KeyErrorByToken ==
  (KeyPosition(Fed) /\ failAt = 0 /\ ~inputAfterEof) =>
    error_ = IF StartsValue(Fed[Len(Fed)]) THEN "expected_string" ELSE "expected_token"

KeyErrorByTokenWitness ==
  /\ KeyPosition(Fed)
  /\ failAt = 0
  /\ ~inputAfterEof
  /\ Fed[Len(Fed)] = right_curly_bracket
  /\ isspace(Fed[Len(Fed) - 1])
  /\ error_ = "expected_token"

-----------------------------------------------------------------------------
(* The specification of extensions: documents that use extension syntax,   *)
(* parsed with no extension, with one extension and with all of them.      *)

ExtensionBytes ==
  {number_sign, solidus, asterisk, apostrophe, plus_sign, comma,
   right_square_bracket, right_curly_bracket, digit_one, line_feed}

\* {"a":1
OpenMember ==
  <<left_curly_bracket, quotation_mark, latin_small_letter_a, quotation_mark,
    colon, digit_one>>

ExtensionSeeds ==
  { <<>>,
    <<digit_one, space>>,
    <<left_square_bracket, digit_one>>,
    <<left_square_bracket, digit_one, comma, space>>,
    OpenMember,
    OpenMember \o <<comma>>,
    <<left_square_bracket, quotation_mark, number_sign, solidus, solidus, plus_sign,
      quotation_mark>>,
    <<digit_one, solidus, asterisk, asterisk, asterisk, solidus>> }

\* no extension, each extension alone, all extensions
GatedExtensionSets == {{}, AllExtensions} \cup {{flag} : flag \in AllExtensions}

InitExtension == InitWith(ExtensionSeeds, ExtensionBytes, GatedExtensionSets, {0})

SpecExtension == InitExtension /\ [][Next]_vars

\* The extensions whose syntax doc[i..] uses outside a string, added to used.
\* mode is where doc[i] stands: "code", in a double-quoted string "dq", in a
\* single-quoted string "sq", in a comment that ends with the line "line", in
\* a comment that ends with */ "block"; last is the last code point of the
\* code before doc[i] that is no whitespace and in no comment.
RECURSIVE Lex(_, _, _, _, _)
Lex(doc, i, mode, last, used) ==
  IF i > Len(doc) THEN used
  ELSE IF mode = "dq" THEN
    IF doc[i] = reverse_solidus THEN Lex(doc, i + 2, mode, last, used)
    ELSE IF doc[i] = quotation_mark THEN Lex(doc, i + 1, "code", doc[i], used)
    ELSE Lex(doc, i + 1, mode, last, used)
  ELSE IF mode = "sq" THEN
    IF doc[i] = reverse_solidus THEN Lex(doc, i + 2, mode, last, used)
    ELSE IF doc[i] = apostrophe THEN Lex(doc, i + 1, "code", doc[i], used)
    ELSE Lex(doc, i + 1, mode, last, used)
  ELSE IF mode = "line" THEN
    Lex(doc, i + 1, IF doc[i] \in {carriage_return, line_feed} THEN "code" ELSE mode,
        last, used)
  ELSE IF mode = "block" THEN
    IF doc[i] = asterisk /\ i < Len(doc) /\ doc[i + 1] = solidus
    THEN Lex(doc, i + 2, "code", last, used)
    ELSE Lex(doc, i + 1, mode, last, used)
  ELSE IF isspace(doc[i]) THEN Lex(doc, i + 1, mode, last, used)
  ELSE IF doc[i] = quotation_mark THEN Lex(doc, i + 1, "dq", last, used)
  ELSE IF doc[i] = apostrophe THEN
    Lex(doc, i + 1, "sq", last, used \cup {"single_quote_string"})
  ELSE IF doc[i] = number_sign THEN
    Lex(doc, i + 1, "line", last, used \cup {"bash_comments"})
  ELSE IF doc[i] = solidus /\ i < Len(doc) /\ doc[i + 1] = solidus THEN
    Lex(doc, i + 2, "line", last, used \cup {"single_line_comments"})
  ELSE IF doc[i] = solidus /\ i < Len(doc) /\ doc[i + 1] = asterisk THEN
    Lex(doc, i + 2, "block", last, used \cup {"multi_line_comments"})
  ELSE IF doc[i] = plus_sign /\ last \notin {latin_small_letter_e, latin_capital_letter_e} THEN
    Lex(doc, i + 1, mode, doc[i], used \cup {"leading_plus"})
  ELSE IF doc[i] = right_square_bracket /\ last = comma THEN
    Lex(doc, i + 1, mode, doc[i], used \cup {"array_trailing_comma"})
  ELSE IF doc[i] = right_curly_bracket /\ last = comma THEN
    Lex(doc, i + 1, mode, doc[i], used \cup {"object_trailing_comma"})
  ELSE Lex(doc, i + 1, mode, doc[i], used)

UsedExtensions(doc) == Lex(doc, 1, "code", space, {})

\* C18: a document that uses the syntax of an extension outside a string is
\* accepted only when the bit of that extension is set; with no extension
\* such a document always ends with an error.
ExtensionsGated ==
  (eofCalls = 1 /\ ~inputAfterEof /\ error_ = NoError) => UsedExtensions(Fed) \subseteq extensions_

-----------------------------------------------------------------------------
(* The specification of trailing commas in arrays and objects.             *)

CommaBytes == {comma, right_square_bracket, right_curly_bracket, digit_one, space}

CommaSeeds ==
  { <<left_square_bracket>>,
    <<left_square_bracket, digit_one>>,
    <<left_square_bracket, digit_one, comma, digit_one, space>>,
    <<left_square_bracket, left_square_bracket, digit_one, comma>>,
    <<left_curly_bracket>>,
    OpenMember,
    <<left_square_bracket>> \o OpenMember \o <<comma>>,
    OpenMember \o <<comma, quotation_mark, latin_small_letter_b, quotation_mark,
                     colon, left_square_bracket, digit_one, comma>> }

CommaExtensionSets ==
  {{}, {"array_trailing_comma"}, {"object_trailing_comma"},
   {"array_trailing_comma", "object_trailing_comma"}}

InitComma == InitWith(CommaSeeds, CommaBytes, CommaExtensionSets, {0, 1})

SpecComma == InitComma /\ [][Next]_vars

\* the last byte of doc, a space for the empty document
LastByte(doc) == IF doc = <<>> THEN space ELSE doc[Len(doc)]

\* doc ends with a comma, optional whitespace and a closing bracket or brace
EndsWithCommaClose(doc) ==
  /\ LastByte(doc) \in {right_square_bracket, right_curly_bracket}
  /\ LastByte(TrimRight(Front(doc))) = comma

\* doc, which ends with a comma and a closing bracket, without that comma
WithoutComma(doc) ==
  TrimRight(Front(TrimRight(Front(doc)))) \o <<LastByte(doc)>>

\* the extension that allows the comma before the closing bracket or brace c
TrailingCommaFlag(c) ==
  IF c = right_square_bracket THEN "array_trailing_comma" ELSE "object_trailing_comma"

\* doc is a document the parser accepts, with one more comma before its last
\* closing bracket or brace, which closes a container that has a member
TrailingComma(doc) ==
  /\ EndsWithCommaClose(doc)
  /\ LastByte(Front(WithoutComma(doc)))
       \notin {comma, left_square_bracket, left_curly_bracket}
  /\ ValidDocument(WithoutComma(doc))

\* a comma of doc stands where a member is expected: after the opening
\* bracket or brace or after another comma
EmptyElement(doc) ==
  \E i \in 1..Len(doc) :
    /\ doc[i] = comma
    /\ LastByte(TrimRight(SubSeq(doc, 1, i - 1)))
         \in {comma, left_square_bracket, left_curly_bracket}

\* C19: a comma before the closing bracket of an array that has a member is
\* rejected with expected_token when array_trailing_comma is off, and when it
\* is on the document is accepted with the callbacks of the document without
\* that comma; the same for objects and object_trailing_comma (rejected when
\* off); a comma where a member is expected is rejected whatever is on.
TrailingCommas ==
  /\ (TrailingComma(Fed) /\ ~inputAfterEof) =>
       IF TrailingCommaFlag(LastByte(Fed)) \in extensions_
       THEN /\ error_ = NoError
            /\ eofCalls = 1 => events = ReferenceRun(WithoutComma(Fed)).events
       ELSE /\ error_ # NoError
            /\ LastByte(Fed) = right_square_bracket => error_ = "expected_token"
  /\ (EmptyElement(Fed) /\ ~inputAfterEof) => error_ # NoError

\* an array in an object, each closed after a trailing comma, both accepted
TrailingCommasWitness ==
  /\ eofCalls = 1
  /\ ~inputAfterEof
  /\ error_ = NoError
  /\ TrailingComma(Fed)
  /\ LastByte(Fed) = right_curly_bracket
  /\ \E i \in 1..(Len(Fed) - 1) : Fed[i] = comma /\ Fed[i + 1] = right_square_bracket

-----------------------------------------------------------------------------
(* The specification of the keywords true, false and null: whole and cut   *)
(* short, at the top level, in an array and in an object, followed by      *)
(* letters, digits, punctuation and a character outside ASCII.             *)

\* e, l, s, 1, z, E, the closing brackets, a comma, a space and the two bytes
\* of e-acute
TokenBytes ==
  {latin_small_letter_e, 108, 115, digit_one, latin_small_letter_z,
   latin_capital_letter_e, right_square_bracket, right_curly_bracket, comma, space,
   195, 169}

\* {"a":
MemberStart ==
  <<left_curly_bracket, quotation_mark, latin_small_letter_a, quotation_mark, colon>>

\* the places the keywords of this specification stand in
TokenContexts == {<<>>, <<left_square_bracket>>, MemberStart}

TokenSeeds ==
  { SubSeq(true_token_matcher.text_, 1, 3),
    SubSeq(false_token_matcher.text_, 1, 2),
    SubSeq(null_token_matcher.text_, 1, 3),
    null_token_matcher.text_,
    <<left_square_bracket>> \o SubSeq(true_token_matcher.text_, 1, 3),
    <<left_square_bracket>> \o SubSeq(false_token_matcher.text_, 1, 4),
    MemberStart \o SubSeq(null_token_matcher.text_, 1, 3) }

InitToken == InitWith(TokenSeeds, TokenBytes, {{}}, {0, 1})

SpecToken == InitToken /\ [][Next]_vars

\* the first letters of the keywords
KeywordLetters == {latin_small_letter_t, latin_small_letter_f, latin_small_letter_n}

\* the keyword that starts with c
Keyword(c) ==
  IF c = latin_small_letter_t THEN true_token_matcher.text_
  ELSE IF c = latin_small_letter_f THEN false_token_matcher.text_
  ELSE null_token_matcher.text_

\* the callback of the keyword that starts with c
KeywordCallback(c) ==
  IF c = latin_small_letter_t THEN [cb |-> "boolean_value", arg |-> TRUE]
  ELSE IF c = latin_small_letter_f THEN [cb |-> "boolean_value", arg |-> FALSE]
  ELSE [cb |-> "null_value", arg |-> <<>>]

\* the index of the first keyword letter of doc, 0 if it has none
TokenStart(doc) ==
  IF \E i \in 1..Len(doc) : doc[i] \in KeywordLetters
  THEN CHOOSE i \in 1..Len(doc) :
         /\ doc[i] \in KeywordLetters
         /\ \A k \in 1..(i - 1) : doc[k] \notin KeywordLetters
  ELSE 0

\* doc from its first keyword letter on, without a last byte that starts a
\* character of several bytes: the decoder has made no code point of it yet
TokenBody(doc) ==
  SubSeq(doc, TokenStart(doc), IF LastByte(doc) >= 192 THEN Len(doc) - 1 ELSE Len(doc))

\* the number of leading bytes body and text have in common
Matched(body, text) ==
  CHOOSE n \in 0..Len(text) :
    /\ n <= Len(body)
    /\ SubSeq(body, 1, n) = SubSeq(text, 1, n)
    /\ (n < Len(text) /\ n < Len(body)) => body[n + 1] # text[n + 1]

\* The fate of the keyword body starts with, after eof() if ended:
\* "mismatch" for a wrong letter, "short" for end of input before the last
\* letter, "alnum" for an ASCII letter or digit after the keyword, "value"
\* when the keyword is followed by another code point or the end of input,
\* "pending" while none of these is known.
TokenFate(body, ended) ==
  IF Matched(body, Keyword(body[1])) < Len(Keyword(body[1])) THEN
    IF Matched(body, Keyword(body[1])) < Len(body) THEN "mismatch"
    ELSE IF ended THEN "short" ELSE "pending"
  ELSE IF Len(body) = Len(Keyword(body[1])) THEN
    IF ended THEN "value" ELSE "pending"
  ELSE IF isalnum(body[Len(Keyword(body[1])) + 1]) THEN "alnum"
  ELSE "value"

\* the callbacks of keywords the sink received
TokenEvents == SelectSeq(events, LAMBDA e : e.cb \in {"boolean_value", "null_value"})

\* What the matcher around a keyword does with the code point c that follows
\* the keyword: the error it stores and the callback it makes.
AfterKeyword(context, c) ==
  IF context = <<>> THEN
    [error |-> IF isspace(c) THEN NoError ELSE "unexpected_extra_input",
     cb |-> "none"]
  ELSE IF context = <<left_square_bracket>> THEN
    IF c = right_square_bracket THEN [error |-> NoError, cb |-> "end_array"]
    ELSE IF c = comma \/ isspace(c) THEN [error |-> NoError, cb |-> "none"]
    ELSE [error |-> "expected_array_member", cb |-> "none"]
  ELSE
    IF c = right_curly_bracket THEN [error |-> NoError, cb |-> "end_object"]
    ELSE IF c = comma \/ isspace(c) THEN [error |-> NoError, cb |-> "none"]
    ELSE [error |-> "expected_object_member", cb |-> "none"]

\* the last callback the sink received
LastCallback == events[Len(events)].cb

\* the first byte of body after its keyword
Lookahead(body) == body[Len(Keyword(body[1])) + 1]

\* body is a keyword and one code point that is no ASCII letter or digit
LookaheadOnly(body) ==
  /\ TokenFate(body, FALSE) = "value"
  /\ \/ Len(body) = Len(Keyword(body[1])) + 1 /\ Lookahead(body) < 192
     \/ /\ Len(body) = Len(Keyword(body[1])) + 2
        /\ Lookahead(body) >= 192
        /\ IsContinuation(body[Len(body)])

\* the parser did what after says
Redelivered(after) ==
  /\ error_ = after.error
  /\ after.cb # "none" => LastCallback = after.cb

\* C20: a keyword's callback is made exactly when the code points spell the
\* keyword and end of input or a code point that is no ASCII letter or digit
\* follows, and that code point is delivered again to the matcher around the
\* keyword; a wrong letter, end of input before the last letter and an ASCII
\* letter or digit after the keyword give unrecognized_token and no callback.
KeywordLookahead ==
  (/\ TokenStart(Fed) > 0
   /\ SubSeq(Fed, 1, TokenStart(Fed) - 1) \in TokenContexts
   /\ failAt = 0
   /\ ~inputAfterEof) =>
    /\ TokenEvents
         = IF TokenFate(TokenBody(Fed), eofCalls > 0) = "value"
           THEN <<KeywordCallback(Fed[TokenStart(Fed)])>>
           ELSE <<>>
    /\ TokenFate(TokenBody(Fed), eofCalls > 0) \in {"mismatch", "short", "alnum"}
         => error_ = "unrecognized_token"
    /\ TokenFate(TokenBody(Fed), eofCalls > 0) = "pending" => error_ = NoError
    /\ (LookaheadOnly(TokenBody(Fed)) /\ LastByte(Fed) < 192 /\ eofCalls = 0) =>
         Redelivered(AfterKeyword(SubSeq(Fed, 1, TokenStart(Fed) - 1),
                                  Lookahead(TokenBody(Fed))))

\* false in an array, cut by a chunk boundary, then the ']' that ends the
\* keyword and closes the array
KeywordLookaheadWitness ==
  /\ Fed = <<left_square_bracket>> \o false_token_matcher.text_ \o <<right_square_bracket>>
  /\ "token" \in splits
  /\ failAt = 0
  /\ ~inputAfterEof
  /\ eofCalls = 1
  /\ error_ = NoError
  /\ TokenEvents = <<[cb |-> "boolean_value", arg |-> FALSE]>>

\* C31: the assertion of parser::set_error holds at every call: no matcher
\* passes the success code while an error is stored, so a stored error is
\* never cleared.
SetErrorAssertion == ~assertFailed

\* a keyword followed by a digit: set_error was given unrecognized_token
\* after begin_array had given it the success code
SetErrorAssertionWitness ==
  /\ Fed = <<left_square_bracket>> \o false_token_matcher.text_ \o <<digit_one>>
  /\ error_ = "unrecognized_token"
  /\ Len(CallbackEvents) = 1
  /\ CallbackEvents[1].cb = "begin_array"

-----------------------------------------------------------------------------
(* The specification of multi-line comments: comment bodies with and       *)
(* without asterisks before the closing asterisk and solidus.              *)

CommentBytes ==
  {asterisk, solidus, latin_small_letter_a, digit_one, space, right_square_bracket,
   line_feed}

CommentSeeds ==
  { <<digit_one, solidus, asterisk>>,
    <<solidus, asterisk, asterisk>>,
    <<left_square_bracket, digit_one, solidus, asterisk, space, latin_small_letter_a,
      space, asterisk>>,
    <<left_square_bracket, solidus, asterisk, latin_small_letter_a, asterisk, solidus>>,
    <<left_square_bracket, digit_one, space>> }

InitComment == InitWith(CommentSeeds, CommentBytes, {{"multi_line_comments"}}, {0})

SpecComment == InitComment /\ [][Next]_vars

\* the index of the first pair of bytes a, b of doc from index i on, 0 if
\* there is none
RECURSIVE FirstPair(_, _, _, _)
FirstPair(doc, i, a, b) ==
  IF i >= Len(doc) THEN 0
  ELSE IF doc[i] = a /\ doc[i + 1] = b THEN i
  ELSE FirstPair(doc, i + 1, a, b)

\* where the first comment of doc opens, 0 if doc has none
CommentOpen(doc) == FirstPair(doc, 1, solidus, asterisk)

\* where the asterisk and solidus that end the first comment of doc stand,
\* 0 while the comment is open
CommentClose(doc) ==
  IF CommentOpen(doc) = 0 THEN 0
  ELSE FirstPair(doc, CommentOpen(doc) + 2, asterisk, solidus)

\* doc with a space in the place of its first comment
WithoutComment(doc) ==
  SubSeq(doc, 1, CommentOpen(doc) - 1) \o <<space>>
    \o SubSeq(doc, CommentClose(doc) + 2, Len(doc))

\* the parser ended with the error and the callbacks of ref
SameOutcome(ref) == error_ = ref.error_ /\ events = ref.events

\* C21: a comment opened by /* ends at the first */ after the opening,
\* whatever its body, and what follows is ordinary input: the document has
\* the outcome of the document with a space in the place of the comment.
CommentEndsAtFirstClose ==
  (eofCalls = 1 /\ ~inputAfterEof /\ CommentClose(Fed) > 0) =>
    SameOutcome(ReferenceRun(WithoutComment(Fed)))

-----------------------------------------------------------------------------
(* The specification of positions: line breaks of every kind between       *)
(* values, in comments and after them, and strings with a two-byte         *)
(* character.                                                              *)

PositionBytes ==
  {line_feed, carriage_return, space, character_tabulation, digit_one, asterisk,
   solidus, 195, 169}

PositionSeeds ==
  { <<>>,
    <<left_square_bracket, digit_one, comma>>,
    <<solidus, asterisk>>,
    <<left_square_bracket, carriage_return, solidus, asterisk, latin_small_letter_a>>,
    <<quotation_mark, 195>>,
    <<number_sign, latin_small_letter_a>>,
    <<carriage_return, line_feed, space, quotation_mark, latin_small_letter_a>>,
    <<left_square_bracket, digit_one, comma, line_feed, hyphen_minus>>,
    <<line_feed, character_tabulation, digit_one, full_stop>> }

InitPosition ==
  InitWith(PositionSeeds, PositionBytes, {{"multi_line_comments"}, AllExtensions}, {0})

SpecPosition == InitPosition /\ [][Next]_vars

\* every byte of doc that starts a two-byte character is the last one or is
\* followed by a continuation byte, and no other byte is a continuation byte
WholeCharacters(doc) ==
  \A i \in 1..Len(doc) :
    /\ doc[i] < 128 \/ doc[i] >= 192 \/ (i > 1 /\ doc[i - 1] >= 192)
    /\ (doc[i] >= 192 /\ i < Len(doc)) => IsContinuation(doc[i + 1])

\* The position after the bytes doc[i..], at where the position before them
\* and after_cr whether the code point before them was a carriage return.
RECURSIVE PositionAfter(_, _, _, _)
PositionAfter(doc, i, at, after_cr) ==
  IF i > Len(doc) THEN at
  ELSE IF doc[i] >= 192 THEN PositionAfter(doc, i + 1, at, after_cr)
  ELSE IF doc[i] = carriage_return THEN
    PositionAfter(doc, i + 1, [line |-> at.line + 1, column |-> 1], TRUE)
  ELSE IF doc[i] = line_feed THEN
    PositionAfter(doc, i + 1,
                  [line |-> IF after_cr THEN at.line ELSE at.line + 1, column |-> 1],
                  FALSE)
  ELSE PositionAfter(doc, i + 1, [at EXCEPT !.column = @ + 1], FALSE)

\* C22: after an accepted prefix input_pos().line is 1 plus the line breaks
\* consumed, CR LF counting as one and a lone CR or LF as one, and
\* input_pos().column is 1 plus the code points since the last line break;
\* the same inside multi-line comments, whatever precedes the line break.
InputPosition ==
  (error_ = NoError /\ ~inputAfterEof /\ WholeCharacters(Fed)) =>
    pos_ = PositionAfter(Fed, 1, [line |-> 1, column |-> 1], FALSE)

-----------------------------------------------------------------------------
(* Numbers at the end of input                                             *)

\* The part of the number grammar the bytes doc[i..] end in, st the part the
\* bytes before them end in: "start", "sign", "zero" (a lone leading 0),
\* "int", "dot", "frac", "e", "esign", "exp", and "bad" for what is no prefix
\* of one number.
RECURSIVE NumberPart(_, _, _)
NumberPart(doc, i, st) ==
  IF i > Len(doc) THEN st
  ELSE
    NumberPart(doc, i + 1,
      CASE st = "start" /\ doc[i] = hyphen_minus -> "sign"
        [] st = "start" /\ doc[i] = plus_sign /\ "leading_plus" \in extensions_ -> "sign"
        [] st \in {"start", "sign"} /\ doc[i] = digit_zero -> "zero"
        [] st \in {"start", "sign", "int"} /\ IsDigit(doc[i]) /\ ~(st # "int" /\ doc[i] = digit_zero) -> "int"
        [] st \in {"zero", "int"} /\ doc[i] = full_stop -> "dot"
        [] st \in {"dot", "frac"} /\ IsDigit(doc[i]) -> "frac"
        [] st \in {"zero", "int", "frac"}
             /\ doc[i] \in {latin_small_letter_e, latin_capital_letter_e} -> "e"
        [] st = "e" /\ doc[i] \in {hyphen_minus, plus_sign} -> "esign"
        [] st \in {"e", "esign", "exp"} /\ IsDigit(doc[i]) -> "exp"
        [] OTHER -> "bad")

\* doc has an exponent part of three bytes or more: the exponent may be too
\* large for a double
LongExponent(doc) ==
  \E k \in 1..Len(doc) :
    /\ doc[k] \in {latin_small_letter_e, latin_capital_letter_e}
    /\ Len(doc) - k >= 3

DigitAfterLeadingZero(doc) ==
  /\ Len(doc) >= 2
  /\ NumberPart(Front(doc), 1, "start") = "zero"
  /\ IsDigit(doc[Len(doc)])

\* C29: a digit right after a leading 0 of the integer part is rejected at
\* once with number_out_of_range: the number matcher consumes the digit and
\* stays on the stack, and there is no callback, neither for the 0 nor for a
\* second number.
LeadingZeroRejected ==
  (DigitAfterLeadingZero(Fed) /\ ~inputAfterEof) =>
    /\ error_ = "number_out_of_range"
    /\ CallbackEvents = <<>>
    /\ Top(stack_).kind = "number"
    /\ pos_.column = Len(Fed)

\* -00
LeadingZeroRejectedWitness ==
  /\ Fed = <<hyphen_minus, digit_zero, digit_zero>>
  /\ error_ = "number_out_of_range"
  /\ eofCalls = 0

-----------------------------------------------------------------------------
(* The end of input inside a string, an array or an object                 *)

\* The constructs the bytes doc[i..] leave open: open the brackets and braces
\* open before doc[i], innermost last, in_string whether doc[i] stands in a
\* string, strings the number of strings closed before doc[i].
RECURSIVE OpenConstructs(_, _, _, _, _)
OpenConstructs(doc, i, open, in_string, strings) ==
  IF i > Len(doc) THEN [open |-> open, in_string |-> in_string, strings |-> strings]
  ELSE IF in_string THEN
    IF doc[i] = reverse_solidus THEN OpenConstructs(doc, i + 2, open, TRUE, strings)
    ELSE IF doc[i] = quotation_mark
      THEN OpenConstructs(doc, i + 1, open, FALSE, strings + 1)
    ELSE OpenConstructs(doc, i + 1, open, TRUE, strings)
  ELSE IF doc[i] = quotation_mark THEN OpenConstructs(doc, i + 1, open, TRUE, strings)
  ELSE IF doc[i] \in {left_square_bracket, left_curly_bracket} THEN
    OpenConstructs(doc, i + 1, Append(open, doc[i]), FALSE, strings)
  ELSE IF doc[i] \in {right_square_bracket, right_curly_bracket} /\ open # <<>> THEN
    OpenConstructs(doc, i + 1, Front(open), FALSE, strings)
  ELSE OpenConstructs(doc, i + 1, open, FALSE, strings)

\* the error of the end of input in the innermost construct that c leaves open
EofError(c) ==
  IF c.in_string THEN "expected_close_quote"
  ELSE IF LastByte(c.open) = left_square_bracket THEN "expected_array_member"
  ELSE "expected_object_member"

\* the number of callbacks of the kinds cbs the sink received
Count(cbs) == Len(SelectSeq(events, LAMBDA e : e.cb \in cbs))

\* the sink has no end callback for a bracket or brace c leaves open and no
\* callback for an open string
OpenNotReported(c) ==
  /\ Count({"begin_array", "begin_object"}) - Count({"end_array", "end_object"})
       = Len(c.open)
  /\ Count({"string_value", "key"}) = c.strings

\* the parser takes doc without an error
AcceptedPrefix(doc) == input(NewParser(extensions_, failAt), doc).error_ = NoError

\* doc ends inside a string, or inside an array or an object and not in a
\* number that lacks digits, nor in a keyword
OpenAtEnd(doc, c) ==
  /\ c.in_string \/ c.open # <<>>
  /\ c.in_string
       \/ LastByte(doc) \notin {hyphen_minus, plus_sign, latin_small_letter_t}

\* the parser did at the end of input what c says
ReportsInnermost(c) == error_ = EofError(c) /\ OpenNotReported(c)

\* C24: eof() while a string, an array or an object is open gives the error
\* of the innermost open construct, expected_close_quote for a string,
\* expected_array_member for an array and expected_object_member for an
\* object in any of their states, and no end_array, end_object, string_value
\* or key callback for the open constructs.
InnermostOpenConstruct ==
  (/\ eofCalls >= 1
   /\ ~inputAfterEof
   /\ failAt = 0
   /\ OpenAtEnd(Fed, OpenConstructs(Fed, 1, <<>>, FALSE, 0))
   /\ AcceptedPrefix(Fed)) =>
    ReportsInnermost(OpenConstructs(Fed, 1, <<>>, FALSE, 0))

-----------------------------------------------------------------------------
(* parser::eof                                                             *)

RECURSIVE EofAsserts(_)
\* assert (handler->is_done ()); assert (res.second); then the rest of the
\* loop of eof()
EofAssertsAfter(p, res) ==
  /\ is_done(res.m)
  /\ res.consumed
  /\ res.child = NoChild
  /\ EofAsserts([res.p EXCEPT !.stack_ = Pop(p.stack_)])

\* the two asserts of eof() hold in every turn of its loop, started on p
EofAsserts(p) ==
  \/ p.stack_ = <<>>
  \/ p.error_ # NoError
  \/ EofAssertsAfter(p, consume(p, Top(p.stack_), EndOfInput))

-----------------------------------------------------------------------------
(* Positions of an error inside a string or a number                       *)

NumberCharacters ==
  {hyphen_minus, plus_sign, full_stop, latin_small_letter_e, latin_capital_letter_e}
    \cup {c \in digit_zero..digit_nine : TRUE}

\* the index of the first byte of the run of number characters doc ends with,
\* Len(doc) + 1 if it ends with none
RECURSIVE NumberStart(_, _)
NumberStart(doc, i) ==
  IF i >= 1 /\ doc[i] \in NumberCharacters THEN NumberStart(doc, i - 1) ELSE i + 1

\* the number doc ends with
LastNumber(doc) == SubSeq(doc, NumberStart(doc, Len(doc)), Len(doc))

\* the index of the first quotation mark of doc
StringStart(doc) == CHOOSE i \in 1..Len(doc) : doc[i] = quotation_mark
                                                 /\ \A k \in 1..(i - 1) : doc[k] # quotation_mark

\* doc ends inside a string
InString(doc) == OpenConstructs(doc, 1, <<>>, FALSE, 0).in_string

\* doc ends inside a number that needs another digit
InNumber(doc) ==
  /\ ~InString(doc)
  /\ NumberPart(LastNumber(doc), 1, "start") \in {"sign", "dot", "e", "esign"}

\* the position of the byte doc[i]
PositionOf(doc, i) ==
  PositionAfter(SubSeq(doc, 1, i - 1), 1, [line |-> 1, column |-> 1], FALSE)

\* the index of the first byte of the string or number Front(doc) ends in
TokenStartsAt(doc) ==
  IF InString(Front(doc)) THEN StringStart(doc)
  ELSE NumberStart(Front(doc), Len(doc) - 1)

\* C26: when a string or a number matcher stores an error for a code point c
\* inside its token, input_pos() is the position of c and pos() the position
\* of the first code point of the token.
ErrorPosition ==
  (/\ error_ # NoError
   /\ Fed # <<>>
   /\ ~inputAfterEof
   /\ WholeCharacters(Fed)
   /\ CommentOpen(Fed) = 0
   /\ InString(Front(Fed)) \/ InNumber(Front(Fed))
   /\ AcceptedPrefix(Front(Fed))
   /\ ~AcceptedPrefix(Fed)) =>
    /\ pos_ = PositionOf(Fed, Len(Fed))
    /\ matcher_pos_ = PositionOf(Fed, TokenStartsAt(Fed))

\* a tab inside a string that starts on the second line, after 'a' and a
\* two-byte character
ErrorPositionWitness ==
  /\ Fed = <<carriage_return, line_feed, space, quotation_mark, latin_small_letter_a,
             195, 169, character_tabulation>>
  /\ error_ = "bad_unicode_code_point"
  /\ pos_ = [line |-> 2, column |-> 5]
  /\ matcher_pos_ = [line |-> 2, column |-> 2]

-----------------------------------------------------------------------------
(* The parse stack between operations                                      *)

\* the bottom of the stack is the eof matcher
EofMatcherAtBottom == stack_ # <<>> /\ stack_[1].kind = "eof"

\* the entry above the bottom is a whitespace matcher
WhitespaceAboveBottom == Len(stack_) >= 2 /\ stack_[2].kind = "whitespace"

\* the stack is empty exactly after an eof() without error, never with an
\* error
EmptyWhenEnded ==
  /\ stack_ = <<>> <=> (eofCalls >= 1 /\ error_ = NoError)
  /\ error_ # NoError => stack_ # <<>>

\* C27: from construction until eof() is called the stack is never empty,
\* its bottom is the eof matcher and the entry above it the whitespace
\* matcher for what follows the value; the stack is empty exactly when eof()
\* has ended without error and never while an error is stored.
StackShape ==
  /\ eofCalls = 0 => EofMatcherAtBottom /\ WhitespaceAboveBottom
  /\ EmptyWhenEnded

\* C27 as the code has it: the whitespace matcher is above the bottom while
\* no error is stored; an error may leave the eof matcher alone.
StackShapeWithoutError ==
  /\ eofCalls = 0 => EofMatcherAtBottom
  /\ (eofCalls = 0 /\ error_ = NoError) => WhitespaceAboveBottom
  /\ EmptyWhenEnded

\* a code point after the value and its whitespace: the whitespace matcher
\* was popped and the eof matcher, alone on the stack, stored the error
StackShapeWithoutErrorWitness ==
  /\ eofCalls = 0
  /\ error_ = "unexpected_extra_input"
  /\ Len(stack_) = 1
  /\ stack_[1].kind = "eof"

-----------------------------------------------------------------------------
(* Several strings and keys in one document                                *)

StringBytes ==
  {quotation_mark, apostrophe, reverse_solidus, latin_small_letter_a,
   latin_small_letter_n, comma, colon, right_square_bracket}

\* ["ab"," and {"ab":" and {"a\n":"a",' and ["é",1," and {"a":{"":'a',"
StringSeeds ==
  { <<left_square_bracket, quotation_mark, latin_small_letter_a, latin_small_letter_b,
      quotation_mark, comma, quotation_mark>>,
    <<left_curly_bracket, quotation_mark, latin_small_letter_a, latin_small_letter_b,
      quotation_mark, colon, quotation_mark>>,
    <<left_curly_bracket, quotation_mark, latin_small_letter_a, reverse_solidus,
      latin_small_letter_n, quotation_mark, colon, quotation_mark,
      latin_small_letter_a, quotation_mark, comma, apostrophe>>,
    <<left_square_bracket, quotation_mark, 195, 169, quotation_mark, comma, digit_one,
      comma, quotation_mark>>,
    <<left_curly_bracket, quotation_mark, latin_small_letter_a, quotation_mark, colon,
      left_curly_bracket, quotation_mark, quotation_mark, colon, apostrophe,
      latin_small_letter_a, apostrophe, comma, quotation_mark>> }

InitString ==
  InitWith(StringSeeds, StringBytes, {{}, {"single_quote_string"}}, {0})

SpecString == InitString /\ [][Next]_vars

\* The texts of the strings of doc that are closed, in order: q is the quote
\* of the string doc[i] is in (0 outside a string) and text what the string
\* has so far.
RECURSIVE StringTexts(_, _, _, _)
StringTexts(doc, i, q, text) ==
  IF i > Len(doc) THEN <<>>
  ELSE IF q = 0 THEN
    StringTexts(doc, i + 1, IF doc[i] \in Quotes THEN doc[i] ELSE 0, <<>>)
  ELSE IF doc[i] = q THEN <<text>> \o StringTexts(doc, i + 1, 0, <<>>)
  ELSE IF doc[i] # reverse_solidus THEN StringTexts(doc, i + 1, q, Append(text, doc[i]))
  ELSE IF i + 1 > Len(doc) THEN <<>>
  ELSE StringTexts(doc, i + 2, q, Append(text, EscapeMeaning(doc[i + 1])))

\* the views passed to string_value and key, in order
StringViews ==
  LET strings == SelectSeq(events, LAMBDA e : e.cb \in {"string_value", "key"})
  IN  [k \in 1..Len(strings) |-> strings[k].arg]

\* views are the first texts, all of them when no error is stored
FirstTexts(views, texts) ==
  /\ Len(views) <= Len(texts)
  /\ views = SubSeq(texts, 1, Len(views))
  /\ error_ = NoError => Len(views) = Len(texts)

\* C28: the view passed to each string_value and key callback holds the
\* decoded characters of that one string and nothing of an earlier string or
\* key, for any sequence of strings and keys.
OneTokenPerView ==
  ~inputAfterEof => FirstTexts(StringViews, StringTexts(Fed, 1, 0, <<>>))

\* a key of two characters, the second from an escape, a string of one and
\* then an empty key
OneTokenPerViewWitness ==
  /\ error_ = NoError
  /\ Len(StringViews) = 3
  /\ StringViews[1] = <<latin_small_letter_a, line_feed>>
  /\ StringViews[3] = <<>>
  /\ events[Len(events)].cb = "key"

-----------------------------------------------------------------------------
(* The range of the positions                                              *)

\* a is not after b, by line and then by column
NotAfter(a, b) == a.line < b.line \/ (a.line = b.line /\ a.column <= b.column)

\* C30: after every input() call that returns, with or without error,
\* input_pos() has a line and a column of at least 1 and pos() is not after
\* input_pos(); the column 0 that advance_row and reset_column write is in
\* neither of them between operations.
PositionsInRange ==
  /\ pos_.line >= 1
  /\ pos_.column >= 1
  /\ matcher_pos_.line >= 1
  /\ matcher_pos_.column >= 1
  /\ NotAfter(matcher_pos_, pos_)

\* a CR LF pair, for which advance_row and then reset_column were called,
\* and a matcher pushed after it
PositionsInRangeWitness ==
  /\ Len(Fed) >= 3
  /\ Fed[Len(Fed) - 2] = carriage_return
  /\ Fed[Len(Fed) - 1] = line_feed
  /\ error_ = NoError
  /\ pos_.line >= 2
  /\ pos_.column = 2
  /\ matcher_pos_ = [pos_ EXCEPT !.column = 1]

-----------------------------------------------------------------------------
(* The preallocated storage of the matchers                                *)

\* the entries of the stack that live in the storage slot
EntriesIn(slot) == {i \in 1..Len(stack_) : Storage(stack_, i) = slot}

\* C32: no two entries of the stack share preallocated storage: at most one
\* root matcher and at most one matcher of the variant terminals_ are on the
\* stack, and no matcher is constructed in place while an entry of the stack
\* lives in that storage.
StorageNotShared ==
  /\ ~sharedStorage
  /\ Cardinality(EntriesIn("root")) <= 1
  /\ Cardinality(EntriesIn("terminals_")) <= 1
  /\ Cardinality(EntriesIn("trailing_ws")) <= 1
  /\ Cardinality(EntriesIn("eof")) <= 1

\* inside an object, after a key whose matchers lived in the root slot and
\* in terminals_, a root matcher and above it a whitespace matcher in
\* terminals_, both slots constructed in a second time
StorageNotSharedWitness ==
  /\ error_ = NoError
  /\ Len(stack_) >= 5
  /\ stack_[Len(stack_) - 1].kind = "root"
  /\ Top(stack_).kind = "whitespace"
  /\ \E i \in 1..Len(CallbackEvents) : CallbackEvents[i].cb = "key"

-----------------------------------------------------------------------------
(* Input after the end of input                                            *)

\* C33: for every sequence of input() and eof() calls, input() after a
\* successful eof() and repeated eof() included, the stack is not empty
\* whenever a code point is delivered.
StackAtDelivery == ~aborted

-----------------------------------------------------------------------------
(* The length of the delivery of one code point                            *)

\* the iterations of the loop of consume_code_point that are counted
IterationLimit == 6

\* the code points delivered to every state
Probes ==
  {character_tabulation, line_feed, carriage_return, space, quotation_mark,
   number_sign, apostrophe, asterisk, plus_sign, comma, hyphen_minus, full_stop,
   solidus, digit_zero, digit_one, colon, latin_capital_letter_e,
   left_square_bracket, reverse_solidus, right_square_bracket,
   latin_small_letter_a, latin_small_letter_e, latin_small_letter_f,
   latin_small_letter_n, latin_small_letter_t, latin_small_letter_z,
   left_curly_bracket, right_curly_bracket, 233}

\* one iteration of the loop of consume_code_point: the parser after it and
\* whether the loop ends with it
DeliveryStep(p, res, code_point) ==
  [p |-> Delivered(p, [res EXCEPT !.consumed = TRUE], code_point),
   consumed |-> res.consumed]

\* The iterations the loop makes to deliver code_point to p, counted up to
\* fuel: fuel + 1 if the loop has not ended by then.
RECURSIVE DeliveryLength(_, _, _)
DeliveryLengthAfter(step, code_point, fuel) ==
  IF step.consumed \/ step.p.error_ # NoError THEN 1
  ELSE 1 + DeliveryLength(step.p, code_point, fuel - 1)

DeliveryLength(p, code_point, fuel) ==
  IF fuel = 0 THEN 1
  ELSE DeliveryLengthAfter(DeliveryStep(p, consume(p, Top(p.stack_), code_point),
                                        code_point),
                           code_point, fuel)

\* C34: the delivery of one code point ends after a bounded number of
\* iterations, with the code point consumed or an error stored, from every
\* reachable stack and for every code point.
DeliveryTerminates ==
  (stack_ # <<>> /\ error_ = NoError) =>
    \A c \in Probes : DeliveryLength(Parser, c, IterationLimit) <= IterationLimit

\* after '[' and whitespace a digit goes through six matchers: the
\* whitespace matcher, the array, the root matcher, its whitespace matcher,
\* the root matcher again and the number matcher
DeliveryTerminatesWitness ==
  /\ error_ = NoError
  /\ Len(stack_) >= 4
  /\ Top(stack_).kind = "whitespace"
  /\ stack_[Len(stack_) - 1].kind = "array"
  /\ DeliveryLength(Parser, digit_one, IterationLimit) = 6
  /\ consume_code_point(Parser, digit_one).error_ = NoError
  /\ Top(consume_code_point(Parser, digit_one).stack_).kind = "number"

-----------------------------------------------------------------------------
(* The code point at which a token is reported                             *)

\* what a callback reports
EventKind(cb) ==
  CASE cb \in {"string_value", "key"} -> "string"
    [] cb \in NumericCallbacks -> "number"
    [] cb \in {"boolean_value", "null_value"} -> "keyword"
    [] OTHER -> cb

\* The tokens of doc[i..] that are due, in order: brackets, braces and
\* strings with their own last code point, a number or a keyword with the
\* code point after it, or with the end of input if ended.  mode is "out"
\* between tokens and "str", "num" or "word" inside one; a byte above 127
\* after a number or a keyword is no code point yet.
RECURSIVE Due(_, _, _, _)
Due(doc, i, mode, ended) ==
  IF i > Len(doc) THEN
    IF ended /\ mode = "num" THEN <<"number">>
    ELSE IF ended /\ mode = "word" THEN <<"keyword">>
    ELSE <<>>
  ELSE
    CASE mode = "str" ->
           IF doc[i] = quotation_mark THEN <<"string">> \o Due(doc, i + 1, "out", ended)
           ELSE IF doc[i] = reverse_solidus THEN Due(doc, i + 2, "str", ended)
           ELSE Due(doc, i + 1, "str", ended)
      [] mode = "num" ->
           IF doc[i] \in NumberCharacters \/ doc[i] > 127 THEN Due(doc, i + 1, "num", ended)
           ELSE <<"number">> \o Due(doc, i, "out", ended)
      [] mode = "word" ->
           IF isalnum(doc[i]) \/ doc[i] > 127 THEN Due(doc, i + 1, "word", ended)
           ELSE <<"keyword">> \o Due(doc, i, "out", ended)
      [] OTHER ->
           CASE doc[i] = left_square_bracket ->
                  <<"begin_array">> \o Due(doc, i + 1, "out", ended)
             [] doc[i] = right_square_bracket ->
                  <<"end_array">> \o Due(doc, i + 1, "out", ended)
             [] doc[i] = left_curly_bracket ->
                  <<"begin_object">> \o Due(doc, i + 1, "out", ended)
             [] doc[i] = right_curly_bracket ->
                  <<"end_object">> \o Due(doc, i + 1, "out", ended)
             [] doc[i] = quotation_mark -> Due(doc, i + 1, "str", ended)
             [] doc[i] = hyphen_minus \/ IsDigit(doc[i]) -> Due(doc, i + 1, "num", ended)
             [] doc[i] \in KeywordLetters -> Due(doc, i + 1, "word", ended)
             [] OTHER -> Due(doc, i + 1, "out", ended)

\* what the callbacks made so far report, in order
ReportedKinds == [k \in 1..Len(CallbackEvents) |-> EventKind(CallbackEvents[k].cb)]

\* doc has no comment and no string in single quotes
PlainTokens(doc) ==
  \A k \in 1..Len(doc) : doc[k] \notin {solidus, number_sign, apostrophe, plus_sign}

\* C35: no callback is deferred by more than one code point: strings, keys
\* and the begin and end of arrays and objects are reported while their own
\* last code point is delivered, numbers and keywords while the code point
\* after them is delivered or in eof(), so that after input() every token
\* followed by a code point has been reported, and none before its time.
CallbacksNotDeferred ==
  (error_ = NoError /\ ~inputAfterEof /\ PlainTokens(Fed)) =>
    ReportedKinds = Due(Fed, 1, "out", eofCalls >= 1)

\* [12, and a line break were delivered: the number was reported with the
\* comma, and the keyword that follows waits for the code point after it
CallbacksNotDeferredWitness ==
  /\ error_ = NoError
  /\ eofCalls = 0
  /\ Len(Fed) >= 2
  /\ Top(stack_).kind = "true"
  /\ Top(stack_).state = "last"
  /\ ReportedKinds = <<"begin_object", "string", "begin_array", "number">>

-----------------------------------------------------------------------------
(* Comments where whitespace is accepted                                   *)

\* the parser is as ref, which was given a space, in error and callbacks
AsWithSpace(ref) == ref.error_ = NoError => error_ = NoError /\ events = ref.events

\* C36: with a comment extension enabled a comment is accepted wherever a
\* whitespace character is, without a change of the callbacks, also directly
\* after a value in an array and after a key or a value in an object: the
\* solidus that begins a comment is taken wherever a space would be.
CommentWhereWhitespace ==
  (/\ eofCalls = 0
   /\ Fed # <<>>
   /\ LastByte(Fed) = solidus
   /\ "multi_line_comments" \in extensions_
   /\ CommentOpen(Front(Fed)) = 0
   /\ ~InString(Front(Fed))) =>
    AsWithSpace(input(NewParser(extensions_, failAt), Front(Fed) \o <<space>>))

-----------------------------------------------------------------------------
(* The end of input inside a multi-byte character                          *)

\* the bytes a lead byte is followed by
Continuations(b) ==
  IF b >= 240 /\ b <= 244 THEN 3
  ELSE IF b >= 224 /\ b <= 239 THEN 2
  ELSE IF b >= 194 /\ b <= 223 THEN 1
  ELSE 0

\* the least byte that may follow the lead byte b
LeastSecond(b) == IF b = 224 THEN 160 ELSE IF b = 240 THEN 144 ELSE 128

\* The bytes at the end of doc[i..] that begin a character and do not
\* complete it, 0 if it ends with a whole character: need is the number of
\* continuation bytes the character before doc[i] still lacks and held the
\* number of its bytes; a byte that cannot continue it ends it.
RECURSIVE PendingFrom(_, _, _, _)
PendingFrom(doc, i, need, held) ==
  IF i > Len(doc) THEN (IF need > 0 THEN held ELSE 0)
  ELSE IF need = 0 THEN PendingFrom(doc, i + 1, Continuations(doc[i]), 1)
  ELSE IF IsContinuation(doc[i]) /\ (held > 1 \/ doc[i] >= LeastSecond(doc[i - 1]))
    THEN PendingFrom(doc, i + 1, need - 1, held + 1)
  ELSE PendingFrom(doc, i + 1, 0, 0)

PendingBytes(doc) == PendingFrom(doc, 1, 0, 0)

\* C37: eof() does not look at the UTF-8 decoder: bytes at the end of the
\* input that begin a character without completing it reach no matcher, make
\* no callback and store no error, and eof() ends as it does without them.
PendingBytesIgnored ==
  (eofCalls = 1 /\ ~inputAfterEof /\ PendingBytes(Fed) > 0) =>
    /\ utf_.need > 0
    /\ SameOutcome(ReferenceRun(SubSeq(Fed, 1, Len(Fed) - PendingBytes(Fed))))

\* "a" and the first byte of a two-byte character: eof() ends without error
PendingBytesIgnoredWitness ==
  /\ eofCalls = 1
  /\ Fed = <<quotation_mark, latin_small_letter_a, quotation_mark, 195>>
  /\ utf_.need = 1
  /\ error_ = NoError
  /\ LastCallback = "result"

-----------------------------------------------------------------------------
(* The DOM builder (lib/json/dom.cpp) as the backend: its stack of         *)
(* elements after the callbacks the parser made.                           *)

\* mark{}
mark == [type |-> "mark"]

\* the map of an object without members
empty_object == [k \in {} |-> mark]

\* dom::elements_until_mark: the number of elements above the topmost mark
elements_until_mark(stack) ==
  Len(stack) - (CHOOSE i \in 1..Len(stack) :
                  stack[i] = mark /\ \A k \in (i + 1)..Len(stack) : stack[k] # mark)

\* object::insert_or_assign, which replaces the value of a key it holds
insert_or_assign(obj, key, value) ==
  [k \in DOMAIN obj \cup {key} |-> IF k = key THEN value ELSE obj[k]]

\* object::try_emplace: nothing is inserted if the object holds the key
try_emplace(obj, key, value) ==
  IF key \in DOMAIN obj THEN obj
  ELSE [k \in DOMAIN obj \cup {key} |-> IF k = key THEN value ELSE obj[k]]

\* stack_->emplace (v) of string_value, int64_value, uint64_value,
\* double_value, boolean_value and null_value, while the stack holds fewer
\* than stack_size elements (the documents here stay far below any limit)
dom_value(stack, type, v) == Append(stack, [type |-> type, value |-> v])

\* dom::begin_array
dom_begin_array(stack) == Append(stack, mark)

\* dom::begin_object, which leaves the mark that end_object pops down to
dom_begin_object(stack) == Append(stack, mark)

\* dom::key, which leaves the string that end_object takes as the key
dom_key(stack, s) == Append(stack, [type |-> "string", value |-> s])

\* the loop of dom::end_array: the elements above the mark, last first
RECURSIVE dom_end_array_loop(_, _)
dom_end_array_loop(stack, arr) ==
  IF Top(stack) = mark THEN [stack |-> Pop(stack), arr |-> arr]
  ELSE dom_end_array_loop(Pop(stack), Append(arr, Top(stack)))

reverse(arr) == [i \in 1..Len(arr) |-> arr[Len(arr) + 1 - i]]

\* the array is pushed in the place of the mark
dom_array_pushed(r) == Append(r.stack, [type |-> "array", value |-> reverse(r.arr)])

\* dom::end_array
dom_end_array(stack) == dom_array_pushed(dom_end_array_loop(stack, <<>>))

\* the loop of dom::end_object: value and key are popped, last pair first,
\* until the value popped is the mark
RECURSIVE dom_end_object_loop(_, _)
dom_end_object_loop(stack, obj) ==
  IF Top(stack) = mark THEN [stack |-> Pop(stack), obj |-> obj]
  ELSE dom_end_object_loop(Pop(Pop(stack)),
                           try_emplace(obj, Top(Pop(stack)).value, Top(stack)))

\* the object is pushed in the place of the mark
dom_object_pushed(r) == Append(r.stack, [type |-> "object", value |-> r.obj])

\* dom::end_object
dom_end_object(stack) == dom_object_pushed(dom_end_object_loop(stack, empty_object))

\* the callback e made on the DOM builder
dom_callback(stack, e) ==
  CASE e.cb = "begin_array" -> dom_begin_array(stack)
    [] e.cb = "begin_object" -> dom_begin_object(stack)
    [] e.cb = "key" -> dom_key(stack, e.arg)
    [] e.cb = "end_array" -> dom_end_array(stack)
    [] e.cb = "end_object" -> dom_end_object(stack)
    [] e.cb = "result" -> stack
    [] OTHER -> dom_value(stack, EventKind(e.cb), e.arg)

\* the stack of the DOM builder after the first n callbacks
RECURSIVE DomAfter(_)
DomAfter(n) == IF n = 0 THEN <<>> ELSE dom_callback(DomAfter(n - 1), events[n])

\* { ", a, b, :, the digit 1, comma and }
DomBytes ==
  {left_curly_bracket, right_curly_bracket, quotation_mark, latin_small_letter_a,
   latin_small_letter_b, colon, comma, digit_one}

\* "a":
KeyA == <<quotation_mark, latin_small_letter_a, quotation_mark, colon>>

\* "b":
KeyB == <<quotation_mark, latin_small_letter_b, quotation_mark, colon>>

\* documents with keys that occur twice and three times, in the object
\* itself and in an object nested in it: {"a":1,"a": and {"a":1,"b":111,"a":
\* and {"b":{"a":1,"a":11},"b": and {"a":1,"a":11,"a": and {"a":1,"b":1 and {
DomSeeds ==
  { <<left_curly_bracket>> \o KeyA \o <<digit_one, comma>> \o KeyA,
    <<left_curly_bracket>> \o KeyA \o <<digit_one, comma>> \o KeyB
      \o <<digit_one, digit_one, digit_one, comma>> \o KeyA,
    <<left_curly_bracket>> \o KeyB \o <<left_curly_bracket>> \o KeyA
      \o <<digit_one, comma>> \o KeyA \o <<digit_one, digit_one, right_curly_bracket, comma>>
      \o KeyB,
    <<left_curly_bracket>> \o KeyA \o <<digit_one, comma>> \o KeyA
      \o <<digit_one, digit_one, comma>> \o KeyA,
    <<left_curly_bracket>> \o KeyA \o <<digit_one, comma>> \o KeyB \o <<digit_one>>,
    <<left_curly_bracket>> }

InitDom == InitWith(DomSeeds, DomBytes, {{}}, {0})

SpecDom == InitDom /\ [][Next]_vars

\* the places of the keys above the topmost mark of stack
KeyPlaces(stack) ==
  {i \in (Len(stack) - elements_until_mark(stack) + 1)..Len(stack) :
     (Len(stack) - i) % 2 = 1}

\* the value that follows the last key of stack that is key
LastValueOf(stack, key) ==
  stack[1 + CHOOSE i \in KeyPlaces(stack) :
              /\ stack[i].value = key
              /\ \A k \in KeyPlaces(stack) : stack[k].value = key => k <= i]

\* end_object made after of before: the mark and the pairs above it are
\* replaced by one object, which holds each key once, with the value of its
\* last pair, and has no more members than there were pairs
EndObjectResult(before, after) ==
  /\ elements_until_mark(before) % 2 = 0
  /\ Len(after) = Len(before) - elements_until_mark(before)
  /\ SubSeq(after, 1, Len(after) - 1) = SubSeq(before, 1, Len(after) - 1)
  /\ Top(after).type = "object"
  /\ DOMAIN Top(after).value = {before[i].value : i \in KeyPlaces(before)}
  /\ \A key \in DOMAIN Top(after).value :
       Top(after).value[key] = LastValueOf(before, key)
  /\ Cardinality(DOMAIN Top(after).value) * 2 <= elements_until_mark(before)

\* C38: end_object of the DOM builder replaces the topmost mark and the keys
\* and values above it by one object; of a key that occurs several times
\* the object keeps the value of the last occurrence in the document, and
\* it has no more members than there were pairs.
EndObjectKeepsLast ==
  \A n \in 1..Len(events) :
    events[n].cb = "end_object" => EndObjectResult(DomAfter(n - 1), DomAfter(n))

\* {"a":1,"b":111,"a":11}: three pairs, two members, a with the value 11
EndObjectKeepsLastWitness ==
  /\ error_ = NoError
  /\ Len(events) = 8
  /\ LastCallback = "end_object"
  /\ Len(DomAfter(Len(events))) = 1
  /\ DOMAIN DomAfter(Len(events))[1].value
       = {<<latin_small_letter_a>>, <<latin_small_letter_b>>}
  /\ DomAfter(Len(events))[1].value[<<latin_small_letter_a>>].value = <<11, 0, 0, 0>>

====
